---------------------------- MODULE Spec2Model ----------------------------
(***************************************************************************)
(* Model of nest-responses-generator: the return-shape analyzer and the    *)
(* declaration emitter of ServiceResponseGenerator, the endpoint scanner   *)
(* DecoratorGenerator, and the decorator rewriter (response-transformer).  *)
(*                                                                         *)
(* Identifiers and file names are sequences of one-character strings, so   *)
(* that capitalize, toLowerCase, includes, startsWith, endsWith and        *)
(* replace are computed on characters as the code computes them.           *)
(***************************************************************************)
EXTENDS Integers, Sequences, FiniteSets, TLC

VARIABLES
  \* --- Type Analyzer: extractReturnType applied to one method ---
  methodNode,          \* the ts.MethodDeclaration under analysis
  returnType,          \* the TypeAnalysis extractReturnType returned
  \* --- Endpoint Scanner: analyzeControllerFile applied to one file ---
  controllerFile,      \* the parsed controller source file
  controllerAnalysis,  \* the ControllerAnalysis returned (Null when it returns null)
  \* --- Unit Scanner and Declaration Emitter on one service file ---
  sourceFile,          \* the parsed service source file
  analysis,            \* the ServiceAnalysis of analyzeServiceFile (Null for null)
  fileContent,         \* the module text generateFileContent built from `analysis`
  baseline,            \* analysis and fileContent of the file before its methods were reordered
  \* --- generation passes: ServiceResponseGenerator.generate, DecoratorGenerator.generate ---
  serviceFiles,        \* the service files glob returns, in its order
  clean,               \* options.clean
  responsesDir,        \* the files of outputDir: file name -> the chunks written to it
  pass,                \* 1 or 2: which call of generate() this is
  pc,                  \* position inside generate()
  idx,                 \* index of the running for-loop
  analyses,            \* const analyses: ServiceAnalysis[]
  generatedCount,      \* let generatedCount
  failed,              \* the units whose analysis or write threw in this pass
  firstPass,           \* outputDir, failures and count at the end of the first pass
  controllerFiles,     \* the controller files glob returns
  indexFile,           \* the content of outputDir/index.ts
  \* --- a rewriter (response transformer, applyTransformations) applied to one source file ---
  rwOriginal,          \* the source file as written by the developer
  rwFile,              \* the source file after the applications so far
  rwPrev,              \* the source file before the latest application
  rwApplied,           \* number of applications of the transformer
  \* --- the CLI plugin: processes calling generateAllResponses ---
  plOptions,           \* pluginOptions of runPlugin: outputDir and clean
  plFs,                \* the output roots: responses directory, index.ts, .signature mtime
  plLock,              \* the lock file: exists, content (pid), mtime
  plClock,             \* Date.now()
  plSrcMtime,          \* mtime of each source file
  plPc,                \* position of each process in generateAllResponses
  plPending,           \* per process: the generate() calls whose continuation has not run
  plCheck,             \* per process: what shouldRegenerate saw and what the call did
  plRuns,              \* number of calls of generateAllResponses so far
  \* --- the generated runtime decorator InferredAPIResponse ---
  rtConfig,            \* RESPONSE_CONFIG of the generated index.ts
  rtCall,              \* the decorated method: class name, method name, options
  rtResult             \* what applying the decorator did

anVars == <<methodNode, returnType>>
scVars == <<controllerFile, controllerAnalysis>>
unVars == <<sourceFile, analysis, fileContent, baseline>>
genVars == <<serviceFiles, clean, responsesDir, pass, pc, idx, analyses,
             generatedCount, failed, firstPass, controllerFiles, indexFile>>
rwVars == <<rwOriginal, rwFile, rwPrev, rwApplied>>
plVars == <<plOptions, plFs, plLock, plClock, plSrcMtime, plPc, plPending, plCheck, plRuns>>
rtVars == <<rtConfig, rtCall, rtResult>>
vars == <<methodNode, returnType, controllerFile, controllerAnalysis,
          sourceFile, analysis, fileContent, baseline,
          serviceFiles, clean, responsesDir, pass, pc, idx, analyses,
          generatedCount, failed, firstPass, controllerFiles, indexFile,
          rwOriginal, rwFile, rwPrev, rwApplied,
          plOptions, plFs, plLock, plClock, plSrcMtime, plPc, plPending, plCheck, plRuns,
          rtConfig, rtCall, rtResult>>

\* the value of a variable whose operation has not run (or that a
\* specification does not use), and the null a scanner returns
Pending == [type |-> "pending"]
Null == [type |-> "null"]

IdleAn == methodNode = Pending /\ returnType = Pending
IdleSc == controllerFile = Pending /\ controllerAnalysis = Pending
IdleUn == sourceFile = Pending /\ analysis = Pending /\ fileContent = Pending
            /\ baseline = Pending
IdleGen == /\ serviceFiles = Pending /\ clean = FALSE /\ responsesDir = Pending
           /\ pass = 0 /\ pc = "idle" /\ idx = 0 /\ analyses = <<>>
           /\ generatedCount = 0 /\ failed = {} /\ firstPass = Pending
           /\ controllerFiles = Pending /\ indexFile = Pending
IdleRw == rwOriginal = Pending /\ rwFile = Pending /\ rwPrev = Pending /\ rwApplied = 0
IdlePl == /\ plOptions = Pending /\ plFs = Pending /\ plLock = Pending /\ plClock = 0
          /\ plSrcMtime = Pending /\ plPc = Pending /\ plPending = Pending
          /\ plCheck = Pending /\ plRuns = 0
IdleRt == rtConfig = Pending /\ rtCall = Pending /\ rtResult = Pending

-----------------------------------------------------------------------------
(* Bounds of the model *)

\* nesting depth of the type nodes and expressions drawn as inputs
MaxDepth == 1
\* number of members of a type literal / properties of an object literal
MaxProps == 2
\* number of methods of a service class drawn as input
MaxMethods == 2
\* number of service files (and of controller files) of a generation pass
MaxUnits == 2
\* number of successive applications of the response transformer to a file
MaxApply == 2
\* number of processes that load the CLI plugin
MaxProcs == 2
\* number of calls of generateAllResponses, all processes together
MaxRuns == 3
\* number of clock ticks (each longer than the stale-lock age)
MaxTicks == 1

-----------------------------------------------------------------------------
(* Strings as character sequences *)

LowerChars == <<"a","b","c","d","e","f","g","h","i","j","k","l","m",
                "n","o","p","q","r","s","t","u","v","w","x","y","z">>
UpperChars == <<"A","B","C","D","E","F","G","H","I","J","K","L","M",
                "N","O","P","Q","R","S","T","U","V","W","X","Y","Z">>

\* String.prototype.toUpperCase / toLowerCase on one character
ToUpperChar(c) ==
  IF \E i \in DOMAIN LowerChars : LowerChars[i] = c
    THEN UpperChars[CHOOSE i \in DOMAIN LowerChars : LowerChars[i] = c]
    ELSE c
ToLowerChar(c) ==
  IF \E i \in DOMAIN UpperChars : UpperChars[i] = c
    THEN LowerChars[CHOOSE i \in DOMAIN UpperChars : UpperChars[i] = c]
    ELSE c

toLowerCase(s) == [i \in 1..Len(s) |-> ToLowerChar(s[i])]
toUpperCase(s) == [i \in 1..Len(s) |-> ToUpperChar(s[i])]

startsWith(s, p) == Len(p) <= Len(s) /\ SubSeq(s, 1, Len(p)) = p
endsWith(s, p) == Len(p) <= Len(s) /\ SubSeq(s, Len(s) - Len(p) + 1, Len(s)) = p
\* positions (0-based offsets) at which p occurs in s
Occurrences(s, p) ==
  {i \in 0..(Len(s) - Len(p)) : SubSeq(s, i + 1, i + Len(p)) = p}
includes(s, p) == Occurrences(s, p) # {}
\* String.prototype.replace with a string pattern: the first occurrence only
replace(s, p, r) ==
  IF Occurrences(s, p) = {} THEN s
  ELSE LET i == CHOOSE k \in Occurrences(s, p) : \A j \in Occurrences(s, p) : k <= j
       IN SubSeq(s, 1, i) \o r \o SubSeq(s, i + Len(p) + 1, Len(s))
\* String.prototype.slice(0, -n)
sliceEnd(s, n) == SubSeq(s, 1, Len(s) - n)

\* capitalize: charAt(0).toUpperCase() + slice(1)
capitalize(str) ==
  IF str = <<>> THEN <<>> ELSE <<ToUpperChar(str[1])>> \o Tail(str)

str_id == <<"i", "d">>
str_Id == <<"I", "d">>
str_email == <<"e", "m", "a", "i", "l">>
str_Email == <<"E", "m", "a", "i", "l">>
str_name == <<"n", "a", "m", "e">>
str_password == <<"p", "a", "s", "s", "w", "o", "r", "d">>
str_role == <<"r", "o", "l", "e">>
str_firstname == <<"f", "i", "r", "s", "t", "n", "a", "m", "e">>
str_lastname == <<"l", "a", "s", "t", "n", "a", "m", "e">>
str_data == <<"d", "a", "t", "a">>
str_meta == <<"m", "e", "t", "a">>
str_page == <<"p", "a", "g", "e">>
str_limit == <<"l", "i", "m", "i", "t">>
str_total == <<"t", "o", "t", "a", "l">>
str_totalPages == <<"t", "o", "t", "a", "l", "P", "a", "g", "e", "s">>
str_hasNext == <<"h", "a", "s", "N", "e", "x", "t">>
str_hasPrev == <<"h", "a", "s", "P", "r", "e", "v">>
str_deleted == <<"d", "e", "l", "e", "t", "e", "d">>
str_User == <<"U", "s", "e", "r">>
str_CreateUserDto == <<"C", "r", "e", "a", "t", "e", "U", "s", "e", "r", "D", "t", "o">>
str_UpdateUserDto == <<"U", "p", "d", "a", "t", "e", "U", "s", "e", "r", "D", "t", "o">>
str_findAllPaginated == <<"f", "i", "n", "d", "A", "l", "l", "P", "a", "g", "i", "n", "a", "t", "e", "d">>
str_Paginated == <<"P", "a", "g", "i", "n", "a", "t", "e", "d">>
str_PaginatedUsers == <<"P", "a", "g", "i", "n", "a", "t", "e", "d", "U", "s", "e", "r", "s">>
str_Array == <<"A", "r", "r", "a", "y">>
str_Promise == <<"P", "r", "o", "m", "i", "s", "e">>
str_Foo == <<"F", "o", "o">>
str_brackets == <<"[", "]">>
str_findAll == <<"f", "i", "n", "d", "A", "l", "l">>
str_Controller == <<"C", "o", "n", "t", "r", "o", "l", "l", "e", "r">>
str_Service == <<"S", "e", "r", "v", "i", "c", "e">>
str_Response == <<"R", "e", "s", "p", "o", "n", "s", "e">>
str_constructor == <<"c", "o", "n", "s", "t", "r", "u", "c", "t", "o", "r">>
str_paginated == <<"p", "a", "g", "i", "n", "a", "t", "e", "d">>
str_paged == <<"p", "a", "g", "e", "d">>
str_findall == <<"f", "i", "n", "d", "a", "l", "l">>
str_getall == <<"g", "e", "t", "a", "l", "l">>
str_listall == <<"l", "i", "s", "t", "a", "l", "l">>
str_getAll == <<"g", "e", "t", "A", "l", "l">>
str_listAll == <<"l", "i", "s", "t", "A", "l", "l">>
str_Paged == <<"P", "a", "g", "e", "d">>
str_Users == <<"U", "s", "e", "r", "s">>
str_ById == <<"B", "y", "I", "d">>
str_Page == <<"P", "a", "g", "e">>
str_find == <<"f", "i", "n", "d">>
str_search == <<"s", "e", "a", "r", "c", "h">>
str_create == <<"c", "r", "e", "a", "t", "e">>
str_remove == <<"r", "e", "m", "o", "v", "e">>
str_xfindAll == <<"x", "f", "i", "n", "d", "A", "l", "l">>
str_FINDALL == <<"F", "I", "N", "D", "A", "L", "L">>
str_UsersController == <<"U", "s", "e", "r", "s", "C", "o", "n", "t", "r", "o", "l", "l", "e", "r">>
str_UsersService == <<"U", "s", "e", "r", "s", "S", "e", "r", "v", "i", "c", "e">>
str_AdminController == <<"A", "d", "m", "i", "n", "C", "o", "n", "t", "r", "o", "l", "l", "e", "r">>
str_usersControllerTs == <<"u", "s", "e", "r", "s", ".", "c", "o", "n", "t", "r", "o", "l", "l", "e", "r", ".", "t", "s">>
str_PAGINATED == toUpperCase(str_paginated)
str_nestjsSwagger == <<"@", "n", "e", "s", "t", "j", "s", "/", "s", "w", "a", "g", "g", "e", "r">>
str_ApiTags == <<"A", "p", "i", "T", "a", "g", "s">>
str_dtoUserResponseDto == <<".", "/", "d", "t", "o", "/", "u", "s", "e", "r", ".", "r", "e", "s", "p", "o", "n", "s", "e", ".", "d", "t", "o">>
str_ok == <<"o", "k">>
str_toString == <<"t", "o", "S", "t", "r", "i", "n", "g">>
str_valueOf == <<"v", "a", "l", "u", "e", "O", "f">>
str_hasOwnProperty == <<"h", "a", "s", "O", "w", "n", "P", "r", "o", "p", "e", "r", "t", "y">>
str_SuccessResponse == <<"S", "u", "c", "c", "e", "s", "s", " ", "r", "e", "s", "p", "o", "n", "s", "e">>
str_isArray == <<"i", "s", "A", "r", "r", "a", "y">>
str_status == <<"s", "t", "a", "t", "u", "s">>
str_description == <<"d", "e", "s", "c", "r", "i", "p", "t", "i", "o", "n">>
str_type == <<"t", "y", "p", "e">>
str_created == <<"c", "r", "e", "a", "t", "e", "d">>
str_filter == <<"f", "i", "l", "t", "e", "r">>
str_query == <<"q", "u", "e", "r", "y">>
str_dotTs == <<".", "t", "s">>
str_dotControllerTs == <<".", "c", "o", "n", "t", "r", "o", "l", "l", "e", "r", ".", "t", "s">>
str_responsesRel == <<"s", "r", "c", "/", "g", "e", "n", "e", "r", "a", "t", "e", "d", "/", "r", "e", "s", "p", "o", "n", "s", "e", "s", "/">>
str_UsersServiceResponse == <<"U", "s", "e", "r", "s", "S", "e", "r", "v", "i", "c", "e", "R", "e", "s", "p", "o", "n", "s", "e">>
str_NewUser == <<"N", "e", "w", " ", "u", "s", "e", "r">>
str_ordersServiceTs == <<"o", "r", "d", "e", "r", "s", ".", "s", "e", "r", "v", "i", "c", "e", ".", "t", "s">>
str_auditServiceTs == <<"a", "u", "d", "i", "t", ".", "s", "e", "r", "v", "i", "c", "e", ".", "t", "s">>
str_adminUsersServiceTs == <<"a", "d", "m", "i", "n", "/", "u", "s", "e", "r", "s", ".", "s", "e", "r", "v", "i", "c", "e", ".", "t", "s">>
str_dotResponseTs == <<".", "r", "e", "s", "p", "o", "n", "s", "e", ".", "t", "s">>
str_dotResponse == <<".", "r", "e", "s", "p", "o", "n", "s", "e">>
str_responsesDirPrefix == <<".", "/", "r", "e", "s", "p", "o", "n", "s", "e", "s", "/">>
str_legacyResponseTs == <<"l", "e", "g", "a", "c", "y", ".", "r", "e", "s", "p", "o", "n", "s", "e", ".", "t", "s">>
str_auditControllerTs == <<"a", "u", "d", "i", "t", ".", "c", "o", "n", "t", "r", "o", "l", "l", "e", "r", ".", "t", "s">>
str_miscControllerTs == <<"m", "i", "s", "c", ".", "c", "o", "n", "t", "r", "o", "l", "l", "e", "r", ".", "t", "s">>
str_AuditController == <<"A", "u", "d", "i", "t", "C", "o", "n", "t", "r", "o", "l", "l", "e", "r">>
str_MiscController == <<"M", "i", "s", "c", "C", "o", "n", "t", "r", "o", "l", "l", "e", "r">>
str_list == <<"l", "i", "s", "t">>
str_health == <<"h", "e", "a", "l", "t", "h">>
str_usersServiceTs == <<"u", "s", "e", "r", "s", ".", "s", "e", "r", "v", "i", "c", "e", ".", "t", "s">>
str_Helper == <<"H", "e", "l", "p", "e", "r">>
str_ServiceResponse == <<"S", "e", "r", "v", "i", "c", "e", "R", "e", "s", "p", "o", "n", "s", "e">>
str_Item == <<"I", "t", "e", "m">>
str_profile == <<"p", "r", "o", "f", "i", "l", "e">>
str_tags == <<"t", "a", "g", "s">>
str_count == <<"c", "o", "u", "n", "t">>
str_log == <<"l", "o", "g">>
str_helper == <<"h", "e", "l", "p", "e", "r">>
str_names == <<"n", "a", "m", "e", "s">>
str_OrdersService == <<"O", "r", "d", "e", "r", "s", "S", "e", "r", "v", "i", "c", "e">>
str_AuditService == <<"A", "u", "d", "i", "t", "S", "e", "r", "v", "i", "c", "e">>
str_value == <<"v", "a", "l", "u", "e">>
str_matrix == <<"m", "a", "t", "r", "i", "x">>
str_address == <<"a", "d", "d", "r", "e", "s", "s">>
str_FindAll == <<"F", "i", "n", "d", "A", "l", "l">>
str_get == <<"g", "e", "t">>
str_getResponse == <<"g", "e", "t", "R", "e", "s", "p", "o", "n", "s", "e">>
str_response == <<"r", "e", "s", "p", "o", "n", "s", "e">>
str_tagsItem == <<"t", "a", "g", "s", "I", "t", "e", "m">>
str_dtoUser == <<"d", "t", "o", ".", "U", "s", "e", "r">>

-----------------------------------------------------------------------------
(* Shape model: TypeAnalysis *)

Unknown == [type |-> "unknown"]
Primitive(p) == [type |-> "primitive", primitiveType |-> p]
ArrayOf(e) == [type |-> "array", elementType |-> e]
\* properties: Record<string, TypeAnalysis>, kept as the insertion-ordered
\* sequence of its entries
ObjectOf(props) == [type |-> "object", properties |-> props]

Prop(n, t) == [name |-> n, type |-> t]
HasKey(props, n) == \E i \in DOMAIN props : props[i].name = n
\* properties[n] = t : an existing key keeps its position, a new key is appended
Put(props, n, t) ==
  IF HasKey(props, n)
    THEN [i \in DOMAIN props |-> IF props[i].name = n THEN Prop(n, t) ELSE props[i]]
    ELSE Append(props, Prop(n, t))
Get(props, n) == props[CHOOSE i \in DOMAIN props : props[i].name = n].type

-----------------------------------------------------------------------------
(* Syntax trees handed to the analyzer *)

NoType == [kind |-> "None"]
KeywordType(k) == [kind |-> "Keyword", keyword |-> k]
ArrayTypeNode(t) == [kind |-> "ArrayType", elementType |-> t]
TypeLiteralNode(ms) == [kind |-> "TypeLiteral", members |-> ms]
TypeReferenceNode(n, args) ==
  [kind |-> "TypeReference", typeName |-> n, typeArguments |-> args]
\* a type reference whose typeName is a qualified name (dto.User), no identifier
QualifiedTypeReference(n, args) ==
  [kind |-> "QualifiedTypeReference", typeName |-> n, typeArguments |-> args]
\* union, intersection, tuple, function type...
OtherTypeNode == [kind |-> "Other"]
PropertySignature(n, t) == [kind |-> "PropertySignature", name |-> n, type |-> t]
\* method signature, index signature, property with a non-identifier name
OtherSignature == [kind |-> "OtherSignature"]

NoExpr == [kind |-> "None"]
StringLiteral == [kind |-> "StringLiteral"]
NumericLiteral == [kind |-> "NumericLiteral"]
TrueKeyword == [kind |-> "TrueKeyword"]
FalseKeyword == [kind |-> "FalseKeyword"]
ArrayLiteral(es) == [kind |-> "ArrayLiteral", elements |-> es]
ObjectLiteral(ps) == [kind |-> "ObjectLiteral", properties |-> ps]
BinaryExpression(l, op, r) ==
  [kind |-> "Binary", left |-> l, operatorToken |-> op, right |-> r]
PropertyAccess(n) == [kind |-> "PropertyAccess", name |-> n]
\* identifier, call, await, template, new ...
OtherExpr == [kind |-> "OtherExpr"]
PropertyAssignment(n, e) == [kind |-> "PropertyAssignment", name |-> n, initializer |-> e]
ShorthandPropertyAssignment(n) == [kind |-> "ShorthandPropertyAssignment", name |-> n]
\* spread assignment, method, accessor, property with a computed or string name
OtherProperty == [kind |-> "OtherProperty"]

ReturnStatement(e) == [kind |-> "Return", expression |-> e]
\* any statement that holds statements (if, for, try, block)
BlockStatement(ss) == [kind |-> "Block", statements |-> ss]
\* a statement holding a function expression or arrow function (a callback
\* passed to map/forEach, a local closure); statements is the function's body
FunctionStatement(ss) == [kind |-> "Function", statements |-> ss]
OtherStatement == [kind |-> "OtherStatement"]

\* a method of a service class; name is <<>> when the method name is no identifier
MethodDeclaration(n, priv, t, body) ==
  [kind |-> "Method", name |-> n, isPrivate |-> priv, type |-> t, body |-> body]

-----------------------------------------------------------------------------
(* ServiceResponseGenerator: the Type Analyzer *)

RECURSIVE handleKnownType(_)
handleKnownType(typeName) ==
  IF endsWith(typeName, str_brackets)
    THEN ArrayOf(handleKnownType(sliceEnd(typeName, 2)))
  ELSE IF typeName = str_User
    THEN ObjectOf(<<Prop(str_id, Primitive("number")),
                    Prop(str_firstname, Primitive("string")),
                    Prop(str_lastname, Primitive("string")),
                    Prop(str_email, Primitive("string")),
                    Prop(str_role, Primitive("string"))>>)
  ELSE IF typeName = str_CreateUserDto
    THEN ObjectOf(<<Prop(str_firstname, Primitive("string")),
                    Prop(str_lastname, Primitive("string")),
                    Prop(str_email, Primitive("string")),
                    Prop(str_password, Primitive("string")),
                    Prop(str_role, Primitive("string"))>>)
  ELSE IF typeName = str_UpdateUserDto
    THEN ObjectOf(<<Prop(str_firstname, Primitive("string")),
                    Prop(str_lastname, Primitive("string")),
                    Prop(str_email, Primitive("string")),
                    Prop(str_role, Primitive("string"))>>)
  ELSE IF includes(typeName, str_findAllPaginated) \/ includes(typeName, str_Paginated)
    THEN ObjectOf(<<
           Prop(str_data, ArrayOf(ObjectOf(<<
             Prop(str_id, Primitive("number")),
             Prop(str_firstname, Primitive("string")),
             Prop(str_lastname, Primitive("string")),
             Prop(str_email, Primitive("string")),
             Prop(str_role, Primitive("string"))>>))),
           Prop(str_meta, ObjectOf(<<
             Prop(str_page, Primitive("number")),
             Prop(str_limit, Primitive("number")),
             Prop(str_total, Primitive("number")),
             Prop(str_totalPages, Primitive("number")),
             Prop(str_hasNext, Primitive("boolean")),
             Prop(str_hasPrev, Primitive("boolean"))>>))>>)
  ELSE ObjectOf(<<Prop(str_id, Primitive("number"))>>)

RECURSIVE analyzeTypeNode(_)
RECURSIVE analyzeTypeMembers(_, _)
\* typeNode.members.forEach(...) accumulating into `properties`
analyzeTypeMembers(members, properties) ==
  IF members = <<>> THEN properties
  ELSE LET member == Head(members) IN
       IF member.kind = "PropertySignature"
         THEN analyzeTypeMembers(Tail(members),
                Put(properties, member.name,
                    IF member.type # NoType THEN analyzeTypeNode(member.type)
                                            ELSE Unknown))
         ELSE analyzeTypeMembers(Tail(members), properties)

analyzeTypeNode(typeNode) ==
  IF typeNode.kind = "ArrayType"
    THEN ArrayOf(analyzeTypeNode(typeNode.elementType))
  ELSE IF typeNode.kind = "TypeLiteral"
    THEN ObjectOf(analyzeTypeMembers(typeNode.members, <<>>))
  ELSE IF typeNode.kind = "TypeReference"
    THEN IF Len(typeNode.typeArguments) = 1 /\ typeNode.typeName = str_Array
           THEN ArrayOf(analyzeTypeNode(typeNode.typeArguments[1]))
           ELSE handleKnownType(typeNode.typeName)
  ELSE IF typeNode.kind = "Keyword"
    THEN IF typeNode.keyword \in {"string", "number", "boolean"}
           THEN Primitive(typeNode.keyword)
           ELSE Unknown
  ELSE Unknown

RECURSIVE analyzeExpression(_)
RECURSIVE analyzeProperties(_, _)
\* expression.properties.forEach(...) accumulating into `properties`
\* mutant: the `id` case of shorthand properties is dropped
RECURSIVE analyzeProperties_noId(_, _)
analyzeProperties_noId(props, properties) ==
  IF props = <<>> THEN properties
  ELSE LET prop == Head(props) IN
       IF prop.kind = "PropertyAssignment"
         THEN analyzeProperties_noId(Tail(props),
                Put(properties, prop.name, analyzeExpression(prop.initializer)))
       ELSE IF prop.kind = "ShorthandPropertyAssignment"
         THEN analyzeProperties_noId(Tail(props),
                Put(properties, prop.name, Primitive("string")))
       ELSE analyzeProperties_noId(Tail(props), properties)

analyzeProperties(props, properties) ==
  IF props = <<>> THEN properties
  ELSE LET prop == Head(props) IN
       IF prop.kind = "PropertyAssignment"
         THEN analyzeProperties(Tail(props),
                Put(properties, prop.name, analyzeExpression(prop.initializer)))
       ELSE IF prop.kind = "ShorthandPropertyAssignment"
         THEN analyzeProperties(Tail(props),
                Put(properties, prop.name,
                    IF prop.name = str_id THEN Primitive("number")
                                          ELSE Primitive("string")))
       ELSE analyzeProperties(Tail(props), properties)

analyzeExpression(expression) ==
  IF expression.kind = "ArrayLiteral"
    THEN IF Len(expression.elements) > 0
           THEN ArrayOf(analyzeExpression(expression.elements[1]))
           ELSE ArrayOf(Unknown)
  ELSE IF expression.kind = "ObjectLiteral"
    THEN ObjectOf(analyzeProperties(expression.properties, <<>>))
  ELSE IF expression.kind = "StringLiteral" THEN Primitive("string")
  ELSE IF expression.kind = "NumericLiteral" THEN Primitive("number")
  ELSE IF expression.kind \in {"TrueKeyword", "FalseKeyword"} THEN Primitive("boolean")
  ELSE IF expression.kind = "Binary" /\ expression.operatorToken = "||"
    THEN analyzeExpression(expression.right)
  ELSE IF expression.kind = "PropertyAccess"
    THEN IF includes(expression.name, str_email) \/ includes(expression.name, str_Email)
           THEN Primitive("string")
         ELSE IF includes(expression.name, str_id) \/ includes(expression.name, str_Id)
           THEN Primitive("number")
         ELSE Primitive("string")
  ELSE Unknown

\* findReturnStatements: the return statements below a node in document order;
\* a return statement is not descended into
RECURSIVE findReturnStatements(_)
findReturnStatements(statements) ==
  IF statements = <<>> THEN <<>>
  ELSE LET node == Head(statements) IN
       (IF node.kind = "Return" THEN <<node>>
        ELSE IF node.kind \in {"Block", "Function"}
          THEN findReturnStatements(node.statements)
        ELSE <<>>) \o findReturnStatements(Tail(statements))

\* mutant: the return statements are consulted before the annotation
extractReturnType_bodyFirst(m) ==
  LET returnStatements == findReturnStatements(m.body)
  IN IF Len(returnStatements) > 0 /\ returnStatements[1].expression # NoExpr
       THEN analyzeExpression(returnStatements[1].expression)
     ELSE IF m.type # NoType
       THEN analyzeTypeNode(m.type)
     ELSE Unknown

extractReturnType(m) ==
  LET explicitType == IF m.type # NoType THEN analyzeTypeNode(m.type) ELSE Unknown
      returnStatements == findReturnStatements(m.body)
  IN IF m.type # NoType /\ explicitType.type # "unknown"
       THEN explicitType
     ELSE IF Len(returnStatements) > 0 /\ returnStatements[1].expression # NoExpr
       THEN analyzeExpression(returnStatements[1].expression)
     ELSE Unknown

-----------------------------------------------------------------------------
(* Inputs of the analyzer: type annotations, return expressions, bodies *)

str_userId == <<"u", "s", "e", "r", "I", "d">>

\* sequences over S of length 0..n
RECURSIVE SeqsUpTo(_, _)
SeqsUpTo(S, n) ==
  IF n = 0 THEN {<<>>}
  ELSE LET R == SeqsUpTo(S, n - 1) IN R \cup {Append(r, x) : r \in {q \in R : Len(q) = n - 1}, x \in S}

\* the property names of a literal are pairwise distinct (TS1117 rejects duplicates)
NamedKinds == {"PropertySignature", "PropertyAssignment", "ShorthandPropertyAssignment"}
DistinctNames(ps) ==
  \A i, j \in DOMAIN ps :
    (i # j /\ ps[i].kind \in NamedKinds /\ ps[j].kind \in NamedKinds)
      => ps[i].name # ps[j].name

FlatMembers ==
  {PropertySignature(str_id, KeywordType("number")),
   PropertySignature(str_name, KeywordType("string")),
   PropertySignature(str_deleted, NoType),
   OtherSignature}
FlatTypeLiterals ==
  {TypeLiteralNode(ms) : ms \in {q \in SeqsUpTo(FlatMembers, MaxProps) : DistinctNames(q)}}
BaseTypes ==
  {KeywordType("string"), KeywordType("number"), KeywordType("boolean"),
   KeywordType("void"), TypeReferenceNode(str_User, <<>>),
   TypeReferenceNode(str_Foo, <<>>), TypeReferenceNode(str_PaginatedUsers, <<>>),
   QualifiedTypeReference(str_dtoUser, <<>>), OtherTypeNode} \cup FlatTypeLiterals

RECURSIVE TypeNodes(_)
TypeNodes(d) ==
  IF d = 0 THEN BaseTypes
  ELSE LET S == TypeNodes(d - 1) IN
       S \cup {ArrayTypeNode(t) : t \in S}
         \cup {TypeReferenceNode(str_Array, <<t>>) : t \in S}
         \cup {TypeReferenceNode(str_Promise, <<t>>) : t \in S}
         \cup {TypeLiteralNode(<<PropertySignature(str_data, t)>>) : t \in S}

FlatProperties ==
  {ShorthandPropertyAssignment(str_id),
   ShorthandPropertyAssignment(str_name),
   ShorthandPropertyAssignment(str_userId),
   PropertyAssignment(str_id, StringLiteral),
   PropertyAssignment(str_deleted, TrueKeyword),
   OtherProperty}
FlatObjectLiterals ==
  {ObjectLiteral(ps) : ps \in {q \in SeqsUpTo(FlatProperties, MaxProps) : DistinctNames(q)}}
BaseExprs ==
  {StringLiteral, NumericLiteral, TrueKeyword, FalseKeyword,
   PropertyAccess(str_userId), PropertyAccess(str_name), OtherExpr,
   ArrayLiteral(<<>>), ArrayLiteral(<<StringLiteral, NumericLiteral>>),
   BinaryExpression(NumericLiteral, "&&", StringLiteral)} \cup FlatObjectLiterals

RECURSIVE Exprs(_)
Exprs(d) ==
  IF d = 0 THEN BaseExprs
  ELSE LET S == Exprs(d - 1) IN
       S \cup {ArrayLiteral(<<e>>) : e \in S}
         \cup {BinaryExpression(OtherExpr, "||", e) : e \in S}
         \cup {ObjectLiteral(<<PropertyAssignment(str_data, e)>>) : e \in S}

\* method bodies around a return expression e
Bodies(E) ==
  {<<>>, <<OtherStatement>>, <<ReturnStatement(NoExpr), ReturnStatement(StringLiteral)>>}
    \cup {<<ReturnStatement(e)>> : e \in E}
    \cup {<<ReturnStatement(e), ReturnStatement(NumericLiteral)>> : e \in E}
    \cup {<<OtherStatement, BlockStatement(<<ReturnStatement(e)>>),
            ReturnStatement(TrueKeyword)>> : e \in E}
    \cup {<<FunctionStatement(<<ReturnStatement(NumericLiteral)>>)>>}
    \cup {<<FunctionStatement(<<ReturnStatement(NumericLiteral)>>),
            ReturnStatement(e)>> : e \in E}

\* the literal-free expressions: enough to vary the body under an annotation
PlainExprs ==
  {StringLiteral, NumericLiteral, OtherExpr, ArrayLiteral(<<>>),
   ObjectLiteral(<<ShorthandPropertyAssignment(str_id)>>)}

AnalyzerInputs ==
  {MethodDeclaration(str_findAll, FALSE, t, b) :
     t \in TypeNodes(MaxDepth), b \in Bodies(PlainExprs)}
  \cup
  {MethodDeclaration(str_findAll, FALSE, t, b) :
     t \in {NoType, KeywordType("void"), OtherTypeNode}, b \in Bodies(Exprs(MaxDepth))}

-----------------------------------------------------------------------------
(* Specification of the analyzer: one method, one call of extractReturnType *)

InitAnalyze ==
  /\ methodNode \in AnalyzerInputs
  /\ returnType = Pending
  /\ IdleSc /\ IdleUn /\ IdleGen /\ IdleRw /\ IdlePl /\ IdleRt

ExtractReturnType ==
  /\ methodNode # Pending
  /\ returnType = Pending
  /\ returnType' = extractReturnType(methodNode)
  /\ UNCHANGED <<methodNode, scVars, unVars, genVars, rwVars, plVars, rtVars>>

SpecAnalyze == InitAnalyze /\ [][ExtractReturnType]_vars

Analyzed == returnType # Pending

\* the expression of the first return statement of the method (NoExpr if none)
FirstReturnExpr ==
  LET rs == findReturnStatements(methodNode.body)
  IN IF rs = <<>> THEN NoExpr ELSE rs[1].expression

\* C2: a method annotated T[] is analysed as an array whose element shape is
\* analyzeTypeNode(T), whatever its body holds.
C2_ArrayAnnotationDecides ==
  (Analyzed /\ methodNode.type.kind = "ArrayType")
    => returnType = ArrayOf(analyzeTypeNode(methodNode.type.elementType))

\* an annotated T[] method whose first return would analyse to something else
C2_Witness ==
  /\ Analyzed
  /\ methodNode.type.kind = "ArrayType"
  /\ FirstReturnExpr # NoExpr
  /\ analyzeExpression(FirstReturnExpr).type = "object"
  /\ returnType.type = "array"
  /\ returnType.elementType.type = "unknown"

\* every shorthand property of literal `lit` has the shape the rule gives it in `shape`
ShorthandRule(lit, shape) ==
  /\ shape.type = "object"
  /\ \A i \in DOMAIN lit.properties :
       lit.properties[i].kind = "ShorthandPropertyAssignment" =>
         /\ HasKey(shape.properties, lit.properties[i].name)
         /\ Get(shape.properties, lit.properties[i].name) =
              IF lit.properties[i].name = str_id THEN Primitive("number")
                                                 ELSE Primitive("string")

HasShorthand(lit, n) ==
  \E i \in DOMAIN lit.properties :
    lit.properties[i].kind = "ShorthandPropertyAssignment" /\ lit.properties[i].name = n

\* C3: in an analysed object literal (returned directly, as the first element of
\* a returned array, or as the default branch of ||) the shorthand property `id`
\* is number and every other shorthand property is string.
C3_ShorthandShapes ==
  (Analyzed /\ methodNode.type = NoType) =>
    LET e == FirstReturnExpr IN
    /\ e.kind = "ObjectLiteral" => ShorthandRule(e, returnType)
    /\ (e.kind = "ArrayLiteral" /\ Len(e.elements) > 0
          /\ e.elements[1].kind = "ObjectLiteral")
         => ShorthandRule(e.elements[1], returnType.elementType)
    /\ (e.kind = "Binary" /\ e.operatorToken = "||" /\ e.right.kind = "ObjectLiteral")
         => ShorthandRule(e.right, returnType)

\* a returned literal holding both `id` and another shorthand property
C3_Witness ==
  /\ Analyzed
  /\ methodNode.type = NoType
  /\ FirstReturnExpr.kind = "ObjectLiteral"
  /\ HasShorthand(FirstReturnExpr, str_id)
  /\ HasShorthand(FirstReturnExpr, str_userId)
  /\ Get(returnType.properties, str_id) = Primitive("number")
  /\ Get(returnType.properties, str_userId) = Primitive("string")

\* the return statements of the method itself, in document order: the ones of
\* nested functions return from those functions, not from the method
RECURSIVE OwnReturnStatements(_)
OwnReturnStatements(statements) ==
  IF statements = <<>> THEN <<>>
  ELSE LET node == Head(statements) IN
       (IF node.kind = "Return" THEN <<node>>
        ELSE IF node.kind = "Block" THEN OwnReturnStatements(node.statements)
        ELSE <<>>) \o OwnReturnStatements(Tail(statements))

\* the method has no annotation, or one that analyses to unknown
FallsBack ==
  methodNode.type = NoType \/ analyzeTypeNode(methodNode.type).type = "unknown"

\* the shape of the expression of return statement r (unknown for a bare return)
ShapeOfReturn(r) ==
  IF r.expression = NoExpr THEN Unknown ELSE analyzeExpression(r.expression)

\* C21: without a usable annotation the result is the shape of the expression
\* of the first return statement of the method, later return statements are
\* not consulted, and a method without a return statement analyses to unknown.
C21_FirstReturnOfMethod ==
  (Analyzed /\ FallsBack) =>
    LET own == OwnReturnStatements(methodNode.body)
    IN returnType = IF own = <<>> THEN Unknown ELSE ShapeOfReturn(own[1])

\* what the code does: the first return statement in document order below the
\* method node decides, the ones inside nested functions included
C21_FirstReturnInDocumentOrder ==
  (Analyzed /\ FallsBack) =>
    LET all == findReturnStatements(methodNode.body)
    IN returnType = IF all = <<>> THEN Unknown ELSE ShapeOfReturn(all[1])

\* the annotation of the method is a reference to a named type
NamedReference ==
  methodNode.type.kind \in {"TypeReference", "QualifiedTypeReference"}

\* the names the registry of handleKnownType knows
Registered(typeName) ==
  \/ typeName \in {str_User, str_CreateUserDto, str_UpdateUserDto}
  \/ includes(typeName, str_Paginated)

DefaultShape == ObjectOf(<<Prop(str_id, Primitive("number"))>>)

\* C22: a method annotated with a named type reference is analysed as the
\* registry shape of the name when it is registered and as { id: number }
\* otherwise, never as unknown, so its return statements are not consulted.
C22_NamedReferenceDecides ==
  (Analyzed /\ NamedReference) =>
    /\ returnType = IF Registered(methodNode.type.typeName)
                      THEN handleKnownType(methodNode.type.typeName)
                      ELSE DefaultShape
    /\ returnType.type # "unknown"

\* what the code does: a reference whose name is an identifier is never
\* unknown; it is an array for Array<T> and the registry or default shape for
\* every other identifier, Promise<T> included
C22_IdentifierReferenceDecides ==
  (Analyzed /\ methodNode.type.kind = "TypeReference") =>
    LET t == methodNode.type IN
    /\ returnType.type # "unknown"
    /\ returnType = IF t.typeName = str_Array /\ Len(t.typeArguments) = 1
                      THEN ArrayOf(analyzeTypeNode(t.typeArguments[1]))
                      ELSE IF Registered(t.typeName)
                        THEN handleKnownType(t.typeName)
                        ELSE DefaultShape

-----------------------------------------------------------------------------
(* Controller syntax trees *)


\* a decorator @name(...arguments) (isCall) or @name; name is "" when the
\* decorator expression is no identifier and no call of an identifier
Decorator(n, args) == [kind |-> "Decorator", name |-> n, isCall |-> TRUE, arguments |-> args]
BareDecorator(n) == [kind |-> "Decorator", name |-> n, isCall |-> FALSE, arguments |-> <<>>]
PrivateKeyword == [kind |-> "PrivateKeyword"]
\* public, async, static ...
OtherModifier == [kind |-> "OtherModifier"]
\* a method; name is <<>> when the method name is no identifier
MethodMember(n, mods) == [kind |-> "Method", name |-> n, modifiers |-> mods]
\* constructor, property, accessor
OtherMember == [kind |-> "OtherMember"]
\* a class declaration; name is <<>> for an anonymous class
ClassDeclaration(n, mods, members) ==
  [kind |-> "Class", name |-> n, modifiers |-> mods, members |-> members]
ImportDeclaration(names, spec) ==
  [kind |-> "Import", names |-> names, moduleSpecifier |-> spec]
SourceFile(fileName, statements) == [fileName |-> fileName, statements |-> statements]

getDecoratorName(decorator) == decorator.name

-----------------------------------------------------------------------------
(* DecoratorGenerator: the Endpoint Scanner *)

httpDecorators == <<"Get", "Post", "Put", "Patch", "Delete", "Options", "Head">>
InSeq(x, seq) == \E i \in DOMAIN seq : seq[i] = x

\* mutant: the last verb decorator among the modifiers decides
detectHttpMethod_last(method) ==
  LET hits == {i \in DOMAIN method.modifiers :
                 /\ method.modifiers[i].kind = "Decorator"
                 /\ getDecoratorName(method.modifiers[i]) # ""
                 /\ InSeq(getDecoratorName(method.modifiers[i]), httpDecorators)}
  IN IF hits = {} THEN ""
     ELSE getDecoratorName(method.modifiers[CHOOSE i \in hits : \A j \in hits : i >= j])

\* the name of the first verb decorator among the modifiers, "" (null) if none
detectHttpMethod(method) ==
  LET hits == {i \in DOMAIN method.modifiers :
                 /\ method.modifiers[i].kind = "Decorator"
                 /\ getDecoratorName(method.modifiers[i]) # ""
                 /\ InSeq(getDecoratorName(method.modifiers[i]), httpDecorators)}
  IN IF hits = {} THEN ""
     ELSE getDecoratorName(method.modifiers[CHOOSE i \in hits : \A j \in hits : i <= j])

\* mutant: the paginated exclusion is dropped
DG_isArrayMethod_noPaginated(name) ==
  \E pattern \in {str_findAll, str_getAll, str_listAll} :
     \/ toLowerCase(name) = toLowerCase(pattern)
     \/ startsWith(toLowerCase(name), toLowerCase(pattern))

\* DecoratorGenerator.isArrayMethod
DG_isArrayMethod(name) ==
  LET isPaginated == \E pattern \in {str_paginated, str_paged} :
                        includes(toLowerCase(name), toLowerCase(pattern))
  IN IF isPaginated THEN FALSE
     ELSE \E pattern \in {str_findAll, str_getAll, str_listAll} :
            \/ toLowerCase(name) = toLowerCase(pattern)
            \/ startsWith(toLowerCase(name), toLowerCase(pattern))

isPrivateMethod(method) ==
  \E i \in DOMAIN method.modifiers : method.modifiers[i].kind = "PrivateKeyword"

ControllerMethodAnalysis(n, http, arr, rt) ==
  [name |-> n, httpMethod |-> http, isArray |-> arr, responseType |-> rt]

\* node.members.forEach(...) of analyzeControllerFile, pushing onto `methods`
RECURSIVE DG_analyzeMembers(_, _, _)
DG_analyzeMembers(members, serviceName, methods) ==
  IF members = <<>> THEN methods
  ELSE LET member == Head(members) IN
       IF /\ member.kind = "Method" /\ member.name # <<>>
          /\ ~(member.name = str_constructor \/ isPrivateMethod(member))
          /\ detectHttpMethod(member) # ""
         THEN DG_analyzeMembers(Tail(members), serviceName,
                Append(methods,
                  ControllerMethodAnalysis(member.name, detectHttpMethod(member),
                    DG_isArrayMethod(member.name),
                    serviceName \o capitalize(member.name) \o str_Response)))
         ELSE DG_analyzeMembers(Tail(members), serviceName, methods)

\* ts.forEachChild(sourceFile, ...) of analyzeControllerFile; acc holds the
\* closure variables controllerName, serviceName (<<>> for null) and methods
RECURSIVE DG_analyzeStatements(_, _)
DG_analyzeStatements(statements, acc) ==
  IF statements = <<>> THEN acc
  ELSE LET node == Head(statements) IN
       IF node.kind = "Class" /\ node.name # <<>> /\ endsWith(node.name, str_Controller)
         THEN LET serviceName == replace(node.name, str_Controller, <<>>) \o str_Service
              IN DG_analyzeStatements(Tail(statements),
                   [controllerName |-> node.name,
                    serviceName |-> serviceName,
                    methods |-> DG_analyzeMembers(node.members, serviceName, acc.methods)])
         ELSE DG_analyzeStatements(Tail(statements), acc)

analyzeControllerFile(file) ==
  LET acc == DG_analyzeStatements(file.statements,
               [controllerName |-> <<>>, serviceName |-> <<>>, methods |-> <<>>])
  IN IF acc.controllerName = <<>> \/ acc.serviceName = <<>> \/ acc.methods = <<>>
       THEN Null
       ELSE acc

-----------------------------------------------------------------------------
(* Specification of the scanner: one controller file, one analyzeControllerFile *)

NamePrefixes ==
  {<<>>, str_findAll, str_getAll, str_listAll, str_FINDALL, str_find,
   str_xfindAll, str_search, str_create}
NameSuffixes ==
  {<<>>, str_Paginated, str_paged, str_Paged, str_PAGINATED, str_Users,
   str_ById, str_Page}
MethodNames == {p \o s : p \in NamePrefixes, s \in NameSuffixes} \ {<<>>}

\* the decorators and keywords written before a controller method
ScanModifiers ==
  {<<Decorator("Get", <<>>)>>,
   <<Decorator("UseGuards", <<>>), Decorator("Post", <<>>)>>,
   <<Decorator("UseGuards", <<>>)>>,
   <<Decorator("Get", <<>>), PrivateKeyword>>,
   <<Decorator("Post", <<>>), Decorator("Get", <<>>)>>,
   <<Decorator("Put", <<>>), Decorator("Post", <<>>)>>,
   <<BareDecorator("Post"), OtherModifier>>,
   <<PrivateKeyword>>}

ScanInputs ==
  {SourceFile(str_usersControllerTs,
     <<ClassDeclaration(str_UsersController, <<Decorator("Controller", <<>>)>>,
         <<OtherMember, MethodMember(n, mods)>>)>>) :
     n \in MethodNames, mods \in ScanModifiers}
  \cup
  \* two handlers in one class
  {SourceFile(str_usersControllerTs,
     <<ClassDeclaration(str_UsersController, <<Decorator("Controller", <<>>)>>,
         <<MethodMember(str_findAll, m1), MethodMember(str_create, m2)>>)>>) :
     m1 \in ScanModifiers, m2 \in ScanModifiers}
  \cup
  \* a handler whose name is a string literal or a computed name; a class that
  \* is no controller; two controller classes in one file
  {SourceFile(str_usersControllerTs,
     <<ClassDeclaration(str_UsersController, <<>>,
         <<MethodMember(<<>>, <<Decorator("Get", <<>>)>>),
           MethodMember(str_create, <<Decorator("Post", <<>>)>>)>>)>>),
   SourceFile(str_usersControllerTs,
     <<ClassDeclaration(str_Helper, <<>>,
         <<MethodMember(str_create, <<Decorator("Post", <<>>)>>)>>)>>),
   SourceFile(str_usersControllerTs,
     <<ClassDeclaration(str_AuditController, <<>>,
         <<MethodMember(str_list, <<Decorator("Get", <<>>)>>)>>),
       ClassDeclaration(str_UsersController, <<>>,
         <<MethodMember(str_create, <<Decorator("Post", <<>>)>>),
           MethodMember(str_remove, <<Decorator("UseGuards", <<>>)>>)>>)>>)}

InitScan ==
  /\ controllerFile \in ScanInputs
  /\ controllerAnalysis = Pending
  /\ IdleAn /\ IdleUn /\ IdleGen /\ IdleRw /\ IdlePl /\ IdleRt

AnalyzeControllerFile ==
  /\ controllerFile # Pending
  /\ controllerAnalysis = Pending
  /\ controllerAnalysis' = analyzeControllerFile(controllerFile)
  /\ UNCHANGED <<controllerFile, anVars, unVars, genVars, rwVars, plVars, rtVars>>

SpecScan == InitScan /\ [][AnalyzeControllerFile]_vars

Scanned == controllerAnalysis # Pending /\ controllerAnalysis # Null

\* C5: a handler name containing `paginated` or `paged` (any case) is classified
\* non-array even when it starts with findAll/getAll/listAll; any other name is
\* classified array exactly when it starts with one of the three (any case).
C5_PaginatedPrecedence ==
  Scanned =>
    \A i \in DOMAIN controllerAnalysis.methods :
      LET m == controllerAnalysis.methods[i]
          low == toLowerCase(m.name)
      IN IF includes(low, str_paginated) \/ includes(low, str_paged)
           THEN m.isArray = FALSE
           ELSE m.isArray = (\/ startsWith(low, str_findall)
                             \/ startsWith(low, str_getall)
                             \/ startsWith(low, str_listall))

\* findAllPaginated was scanned and classified non-array
C5_Witness ==
  /\ Scanned
  /\ \E i \in DOMAIN controllerAnalysis.methods :
       /\ controllerAnalysis.methods[i].name = str_findAllPaginated
       /\ controllerAnalysis.methods[i].isArray = FALSE

-----------------------------------------------------------------------------
(* ServiceResponseGenerator: the Unit Scanner *)

SG_isPrivateMethod(method) == method.isPrivate

generateResponseClassName(serviceName, name) ==
  serviceName \o capitalize(name) \o str_Response

MethodAnalysis(n, rt, rcn) == [name |-> n, returnType |-> rt, responseClassName |-> rcn]

\* mutant: the declaration name carries the position of the method in the class
RECURSIVE SG_analyzeMembers_positional(_, _, _)
SG_analyzeMembers_positional(members, serviceName, methods) ==
  IF members = <<>> THEN methods
  ELSE LET member == Head(members) IN
       IF /\ member.kind = "Method" /\ member.name # <<>>
          /\ ~(member.name = str_constructor \/ SG_isPrivateMethod(member))
          /\ extractReturnType(member).type # "unknown" /\ serviceName # <<>>
         THEN SG_analyzeMembers_positional(Tail(members), serviceName,
                Append(methods,
                  MethodAnalysis(member.name, extractReturnType(member),
                    generateResponseClassName(serviceName,
                      IF methods = <<>> THEN member.name ELSE member.name \o str_Item))))
         ELSE SG_analyzeMembers_positional(Tail(members), serviceName, methods)

\* node.members.forEach(...) of analyzeServiceFile, pushing onto `methods`
RECURSIVE SG_analyzeMembers(_, _, _)
SG_analyzeMembers(members, serviceName, methods) ==
  IF members = <<>> THEN methods
  ELSE LET member == Head(members) IN
       IF /\ member.kind = "Method" /\ member.name # <<>>
          /\ ~(member.name = str_constructor \/ SG_isPrivateMethod(member))
          /\ extractReturnType(member).type # "unknown" /\ serviceName # <<>>
         THEN SG_analyzeMembers(Tail(members), serviceName,
                Append(methods,
                  MethodAnalysis(member.name, extractReturnType(member),
                    generateResponseClassName(serviceName, member.name))))
         ELSE SG_analyzeMembers(Tail(members), serviceName, methods)

\* ts.forEachChild(sourceFile, ...) of analyzeServiceFile; acc holds the closure
\* variables serviceName (<<>> for null) and methods
RECURSIVE SG_analyzeStatements(_, _)
SG_analyzeStatements(statements, acc) ==
  IF statements = <<>> THEN acc
  ELSE LET node == Head(statements) IN
       IF node.kind = "Class" /\ node.name # <<>> /\ endsWith(node.name, str_Service)
         THEN SG_analyzeStatements(Tail(statements),
                [serviceName |-> node.name,
                 methods |-> SG_analyzeMembers(node.members, node.name, acc.methods)])
         ELSE SG_analyzeStatements(Tail(statements), acc)

analyzeServiceFile(file) ==
  LET acc == SG_analyzeStatements(file.statements, [serviceName |-> <<>>, methods |-> <<>>])
  IN IF acc.serviceName = <<>> \/ acc.methods = <<>>
       THEN Null
       ELSE [serviceName |-> acc.serviceName, filePath |-> file.fileName,
             methods |-> acc.methods]

-----------------------------------------------------------------------------
(* ServiceResponseGenerator: the Declaration Emitter *)

\* The generated text is kept as its structure: a module is the import line,
\* the declarations of each method in order, and the lookup object.
\* A type written in the text is a primitive name or a class name, with `dims`
\* trailing [] pairs.
PrimitiveTs(p, dims) == [primitive |-> p, dims |-> dims]
ClassTs(c, dims) == [class |-> c, dims |-> dims]

mapTypeToSwagger(type) ==
  IF type \in {"string", "number", "boolean", "object", "array"} THEN type ELSE "any"

RECURSIVE mapTypeToTypescript(_)
mapTypeToTypescript(type) ==
  IF type.type = "primitive" THEN PrimitiveTs(type.primitiveType, 0)
  ELSE IF type.type = "array"
    THEN LET e == mapTypeToTypescript(type.elementType)
         IN [e EXCEPT !.dims = @ + 1]
  ELSE IF type.type = "object" THEN PrimitiveTs("object", 0)
  ELSE PrimitiveTs("any", 0)

\* the example value as JSON.stringify prints it; "undefined" when there is none
generateExample(name, type) ==
  IF type.type = "primitive"
    THEN IF type.primitiveType = "string"
           THEN IF includes(toLowerCase(name), str_email) THEN "\"user@example.com\""
                ELSE IF includes(toLowerCase(name), str_name) THEN "\"example name\""
                ELSE IF includes(toLowerCase(name), str_password) THEN "\"password123\""
                ELSE IF includes(toLowerCase(name), str_role) THEN "\"user\""
                ELSE "\"example value\""
         ELSE IF type.primitiveType = "number"
           THEN IF includes(toLowerCase(name), str_id) THEN "1" ELSE "0"
         ELSE IF type.primitiveType = "boolean" THEN "true"
         ELSE "undefined"
    ELSE "undefined"

\* one emitted property: the @ApiProperty options (example, type, isArray, each
\* absent from the text when "undefined"/"any"/FALSE) and the field line
Property(n, example, apiType, arr, ts) ==
  [name |-> n, example |-> example, apiType |-> apiType, isArray |-> arr, tsType |-> ts]

generateProperty(name, type) ==
  Property(name, generateExample(name, type),
           PrimitiveTs(mapTypeToSwagger(IF type.type = "primitive"
                                          THEN type.primitiveType ELSE "any"), 0),
           FALSE, mapTypeToTypescript(type))

generateProperties(props) == [i \in DOMAIN props |-> generateProperty(props[i].name, props[i].type)]

\* `export class name { properties }`; comment is the comment line in its body
ClassDecl(n, props, comment) ==
  [kind |-> "class", name |-> n, properties |-> props, comment |-> comment]
\* `export const name = value;`
ConstDecl(n, v) == [kind |-> "const", name |-> n, value |-> v]

IsObjectProp(type) == type.type = "object"
IsObjectArrayProp(type) == type.type = "array" /\ type.elementType.type = "object"

\* the nestedClasses text of generateResponseClass: one class per object-valued
\* or array-of-object-valued property, in property order
RECURSIVE nestedClasses(_, _)
nestedClasses(rcn, props) ==
  IF props = <<>> THEN <<>>
  ELSE LET p == Head(props) IN
       (IF IsObjectProp(p.type)
          THEN <<ClassDecl(rcn \o capitalize(p.name),
                           generateProperties(p.type.properties), "")>>
        ELSE IF IsObjectArrayProp(p.type)
          THEN <<ClassDecl(rcn \o capitalize(p.name) \o str_Item,
                           generateProperties(p.type.elementType.properties), "")>>
        ELSE <<>>) \o nestedClasses(rcn, Tail(props))

\* the property lines of the class of an object-shaped method
topProperties(rcn, props) ==
  [i \in DOMAIN props |->
     LET p == props[i] IN
     IF IsObjectProp(p.type)
       THEN Property(p.name, "undefined", ClassTs(rcn \o capitalize(p.name), 0), FALSE,
                     ClassTs(rcn \o capitalize(p.name), 0))
     ELSE IF IsObjectArrayProp(p.type)
       THEN Property(p.name, "undefined",
                     ClassTs(rcn \o capitalize(p.name) \o str_Item, 0), TRUE,
                     ClassTs(rcn \o capitalize(p.name) \o str_Item, 1))
     ELSE generateProperty(p.name, p.type)]

\* the declarations generateResponseClass writes for one method, in text order
generateResponseClass(method) ==
  LET rcn == method.responseClassName
      rt == method.returnType
  IN IF rt.type = "object"
       THEN nestedClasses(rcn, rt.properties)
              \o <<ClassDecl(rcn, topProperties(rcn, rt.properties), "")>>
     ELSE IF rt.type = "array"
       THEN IF rt.elementType.type = "object"
              THEN <<ClassDecl(rcn \o str_Item,
                               generateProperties(rt.elementType.properties), ""),
                     ConstDecl(rcn, rcn \o str_Item)>>
              ELSE LET primitiveType ==
                         mapTypeToSwagger(IF rt.elementType.type = "primitive"
                                            THEN rt.elementType.primitiveType ELSE "any")
                   IN <<ClassDecl(rcn,
                          <<Property(str_value, "undefined", PrimitiveTs(primitiveType, 0),
                                     FALSE, PrimitiveTs(primitiveType, 0))>>, "")>>
     ELSE <<ClassDecl(rcn, <<>>, "Unknown return type")>>

generateResponseObject(a) ==
  [name |-> replace(a.serviceName, str_Service, <<>>) \o str_ServiceResponse,
   mappings |-> [i \in DOMAIN a.methods |->
                   [key |-> a.methods[i].name, value |-> a.methods[i].responseClassName]]]

generateFileContent(a) ==
  [imports |-> <<"import { ApiProperty } from '@nestjs/swagger';">>,
   classes |-> [i \in DOMAIN a.methods |-> generateResponseClass(a.methods[i])],
   responseObject |-> generateResponseObject(a)]

-----------------------------------------------------------------------------
(* Specification of one unit: a service file is analysed, its module is      *)
(* generated, its methods are reordered and it is analysed and generated     *)
(* again                                                                     *)

M_findAll ==
  MethodDeclaration(str_findAll, FALSE, ArrayTypeNode(TypeReferenceNode(str_User, <<>>)),
                    <<ReturnStatement(OtherExpr)>>)
M_create ==
  MethodDeclaration(str_create, FALSE, NoType,
    <<ReturnStatement(ObjectLiteral(<<
        ShorthandPropertyAssignment(str_id),
        PropertyAssignment(str_profile,
          ObjectLiteral(<<PropertyAssignment(str_name, StringLiteral)>>)),
        PropertyAssignment(str_tags,
          ArrayLiteral(<<ObjectLiteral(<<ShorthandPropertyAssignment(str_id)>>)>>))>>))>>)
M_remove ==
  MethodDeclaration(str_remove, FALSE, NoType,
    <<ReturnStatement(ObjectLiteral(<<PropertyAssignment(str_deleted, TrueKeyword)>>))>>)
M_log == MethodDeclaration(str_log, FALSE, KeywordType("void"), <<OtherStatement>>)
M_count == MethodDeclaration(str_count, FALSE, KeywordType("number"),
                             <<ReturnStatement(NumericLiteral)>>)
M_helper ==
  MethodDeclaration(str_helper, TRUE, NoType,
    <<ReturnStatement(ObjectLiteral(<<ShorthandPropertyAssignment(str_id)>>))>>)
M_names == MethodDeclaration(str_names, FALSE, ArrayTypeNode(KeywordType("string")),
                             <<ReturnStatement(ArrayLiteral(<<>>))>>)
M_findAllPaginated ==
  MethodDeclaration(str_findAllPaginated, FALSE, TypeReferenceNode(str_PaginatedUsers, <<>>),
                    <<ReturnStatement(OtherExpr)>>)

\* list() { return []; }
M_list == MethodDeclaration(str_list, FALSE, NoType, <<ReturnStatement(ArrayLiteral(<<>>))>>)
\* matrix(): number[][]
M_matrix ==
  MethodDeclaration(str_matrix, FALSE, ArrayTypeNode(ArrayTypeNode(KeywordType("number"))),
                    <<ReturnStatement(OtherExpr)>>)
\* search(): { id: number; profile: { name: string } }[]
M_search ==
  MethodDeclaration(str_search, FALSE,
    ArrayTypeNode(TypeLiteralNode(<<
      PropertySignature(str_id, KeywordType("number")),
      PropertySignature(str_profile,
        TypeLiteralNode(<<PropertySignature(str_name, KeywordType("string"))>>))>>)),
    <<ReturnStatement(OtherExpr)>>)
\* find() { return { profile: { address: { id } }, tags: [{ meta: { id } }] }; }
M_find ==
  MethodDeclaration(str_find, FALSE, NoType,
    <<ReturnStatement(ObjectLiteral(<<
        PropertyAssignment(str_profile,
          ObjectLiteral(<<PropertyAssignment(str_address,
            ObjectLiteral(<<ShorthandPropertyAssignment(str_id)>>))>>)),
        PropertyAssignment(str_tags,
          ArrayLiteral(<<ObjectLiteral(<<PropertyAssignment(str_meta,
            ObjectLiteral(<<ShorthandPropertyAssignment(str_id)>>))>>)>>))>>))>>)
\* FindAll(): User
M_FindAll ==
  MethodDeclaration(str_FindAll, FALSE, TypeReferenceNode(str_User, <<>>),
                    <<ReturnStatement(OtherExpr)>>)
\* get() { return { response: { id }, tags: [{ id }], tagsItem: { id } }; }
M_get ==
  MethodDeclaration(str_get, FALSE, NoType,
    <<ReturnStatement(ObjectLiteral(<<
        PropertyAssignment(str_response,
          ObjectLiteral(<<ShorthandPropertyAssignment(str_id)>>)),
        PropertyAssignment(str_tags,
          ArrayLiteral(<<ObjectLiteral(<<ShorthandPropertyAssignment(str_id)>>)>>)),
        PropertyAssignment(str_tagsItem,
          ObjectLiteral(<<ShorthandPropertyAssignment(str_id)>>))>>))>>)
\* getResponse(): User
M_getResponse ==
  MethodDeclaration(str_getResponse, FALSE, TypeReferenceNode(str_User, <<>>),
                    <<ReturnStatement(OtherExpr)>>)

MethodPool ==
  {M_findAll, M_create, M_remove, M_log, M_count, M_helper, M_names, M_findAllPaginated,
   M_list, M_matrix, M_search, M_find, M_FindAll, M_get, M_getResponse}

DistinctMethodNames(ms) == \A i, j \in DOMAIN ms : i # j => ms[i].name # ms[j].name
MethodLists == {ms \in SeqsUpTo(MethodPool, MaxMethods) : DistinctMethodNames(ms)}

UnitInputs ==
  {SourceFile(str_usersServiceTs,
     <<ImportDeclaration(<<str_User>>, str_User),
       ClassDeclaration(str_UsersService, <<Decorator("Injectable", <<>>)>>,
                        <<OtherMember>> \o ms)>>) : ms \in MethodLists}
  \cup
  {SourceFile(str_usersServiceTs,
     <<ClassDeclaration(str_AuditService, <<>>, <<M_log>>),
       ClassDeclaration(str_UsersService, <<>>, <<M_findAll, M_remove>>)>>),
   SourceFile(str_usersServiceTs,
     <<ClassDeclaration(str_UsersService, <<>>, <<M_create, M_helper>>),
       ClassDeclaration(str_OrdersService, <<>>, <<M_remove>>)>>),
   SourceFile(str_usersServiceTs,
     <<ClassDeclaration(str_Helper, <<>>, <<M_findAll>>)>>)}

InitUnit ==
  /\ sourceFile \in UnitInputs
  /\ analysis = Pending
  /\ fileContent = Pending
  /\ baseline = Pending
  /\ IdleAn /\ IdleSc /\ IdleGen /\ IdleRw /\ IdlePl /\ IdleRt

AnalyzeServiceFile ==
  /\ sourceFile # Pending
  /\ analysis = Pending
  /\ analysis' = analyzeServiceFile(sourceFile)
  /\ UNCHANGED <<sourceFile, fileContent, baseline, anVars, scVars, genVars, rwVars, plVars, rtVars>>

\* generate() emits a module only for a non-null analysis
GenerateFileContent ==
  /\ analysis # Pending /\ analysis # Null
  /\ fileContent = Pending
  /\ fileContent' = generateFileContent(analysis)
  /\ UNCHANGED <<sourceFile, analysis, baseline, anVars, scVars, genVars, rwVars, plVars, rtVars>>

Orderings(n) == {f \in [1..n -> 1..n] : \A i, j \in 1..n : f[i] = f[j] => i = j}

\* the developer reorders the members of one class of the file
ReorderMethods ==
  /\ baseline = Pending
  /\ fileContent # Pending \/ analysis = Null
  /\ \E k \in DOMAIN sourceFile.statements :
       /\ sourceFile.statements[k].kind = "Class"
       /\ \E f \in Orderings(Len(sourceFile.statements[k].members)) :
            sourceFile' =
              [sourceFile EXCEPT !.statements[k].members =
                 [i \in DOMAIN sourceFile.statements[k].members |->
                    sourceFile.statements[k].members[f[i]]]]
  /\ baseline' = [analysis |-> analysis, fileContent |-> fileContent]
  /\ analysis' = Pending
  /\ fileContent' = Pending
  /\ UNCHANGED <<anVars, scVars, genVars, rwVars, plVars, rtVars>>

SpecUnit == InitUnit /\ [][AnalyzeServiceFile \/ GenerateFileContent \/ ReorderMethods]_vars

UnitAnalyzed == analysis # Pending /\ analysis # Null
UnitGenerated == fileContent # Pending

\* the names of the classes of `file` that declare a method called n
DeclaringClasses(file, n) ==
  {file.statements[k].name : k \in
     {k \in DOMAIN file.statements :
        /\ file.statements[k].kind = "Class"
        /\ \E i \in DOMAIN file.statements[k].members :
             /\ file.statements[k].members[i].kind = "Method"
             /\ file.statements[k].members[i].name = n}}

SeqRange(seq) == {seq[i] : i \in DOMAIN seq}
DeclNames(decls) == [i \in DOMAIN decls |-> decls[i].name]

\* the child names the naming rule derives from a declaration name and a shape
DerivedChildNames(rcn, shape) ==
  IF shape.type = "object"
    THEN {rcn \o capitalize(shape.properties[i].name) : i \in DOMAIN shape.properties}
         \cup {rcn \o capitalize(shape.properties[i].name) \o str_Item :
                 i \in DOMAIN shape.properties}
    ELSE {rcn \o str_Item}

\* C4: the declaration name of a method is {Class}{Capitalize(method)}Response,
\* its child names come from that name and the field names only, and reordering
\* the methods of a class leaves every method's declaration name and child
\* names as they were.
C4_NamingDeterminism ==
  /\ UnitAnalyzed =>
       \A i \in DOMAIN analysis.methods :
         \E c \in DeclaringClasses(sourceFile, analysis.methods[i].name) :
           analysis.methods[i].responseClassName =
             c \o capitalize(analysis.methods[i].name) \o str_Response
  /\ UnitGenerated =>
       \A i \in DOMAIN analysis.methods :
         LET rcn == analysis.methods[i].responseClassName IN
         /\ rcn \in SeqRange(DeclNames(fileContent.classes[i]))
         /\ SeqRange(DeclNames(fileContent.classes[i])) \ {rcn}
              \subseteq DerivedChildNames(rcn, analysis.methods[i].returnType)
  /\ (UnitGenerated /\ baseline # Pending /\ baseline.fileContent # Pending) =>
       \A i \in DOMAIN analysis.methods :
         \E j \in DOMAIN baseline.analysis.methods :
           /\ baseline.analysis.methods[j].name = analysis.methods[i].name
           /\ baseline.analysis.methods[j].responseClassName =
                analysis.methods[i].responseClassName
           /\ DeclNames(baseline.fileContent.classes[j]) = DeclNames(fileContent.classes[i])

\* two analysed methods changed places, one of them with child declarations
C4_Witness ==
  /\ UnitGenerated /\ baseline # Pending /\ baseline.fileContent # Pending
  /\ Len(analysis.methods) = 2
  /\ analysis.methods[1].name = baseline.analysis.methods[2].name
  /\ analysis.methods[2].name = baseline.analysis.methods[1].name
  /\ Len(fileContent.classes[1]) > 2

\* the methods of service classes that are named, public and no constructor
PublicMethods(file) ==
  {<<file.statements[k].name, file.statements[k].members[i].name>> :
     <<k, i>> \in
       {<<k, i>> \in (DOMAIN file.statements) \X (1..(MaxMethods + 2)) :
          /\ file.statements[k].kind = "Class"
          /\ endsWith(file.statements[k].name, str_Service)
          /\ i \in DOMAIN file.statements[k].members
          /\ file.statements[k].members[i].kind = "Method"
          /\ file.statements[k].members[i].name # <<>>
          /\ file.statements[k].members[i].name # str_constructor
          /\ ~file.statements[k].members[i].isPrivate}}

AllDeclNames(fc) ==
  UNION {SeqRange(DeclNames(fc.classes[i])) : i \in DOMAIN fc.classes}
LookupKeys(fc) ==
  {fc.responseObject.mappings[i].key : i \in DOMAIN fc.responseObject.mappings}

\* C9 (as claimed): in a generated module every public method of the service
\* class, a method of unknown shape included, has a declaration and a key in
\* the lookup object.
C9_NoMethodSkipped ==
  UnitGenerated =>
    \A cm \in PublicMethods(sourceFile) :
      /\ generateResponseClassName(cm[1], cm[2]) \in AllDeclNames(fileContent)
      /\ cm[2] \in LookupKeys(fileContent)

\* the declarations of the module that are named n
DeclsNamed(fc, n) ==
  {<<i, j>> \in (DOMAIN fc.classes) \X (1..(2 * MaxProps + 3)) :
     j \in DOMAIN fc.classes[i] /\ fc.classes[i][j].name = n}
TheDecl(fc, n) ==
  LET ij == CHOOSE ij \in DeclsNamed(fc, n) : TRUE IN fc.classes[ij[1]][ij[2]]

PrimitiveMethods ==
  {i \in DOMAIN analysis.methods : analysis.methods[i].returnType.type = "primitive"}

\* C23: a method whose top-level shape is a primitive gets a declaration with
\* exactly one field, named `value`, of that primitive type.
C23_PrimitiveWrapper ==
  UnitGenerated =>
    \A i \in PrimitiveMethods :
      LET m == analysis.methods[i] IN
      /\ DeclsNamed(fileContent, m.responseClassName) # {}
      /\ LET d == TheDecl(fileContent, m.responseClassName) IN
         /\ d.kind = "class"
         /\ Len(d.properties) = 1
         /\ d.properties[1].name = str_value
         /\ d.properties[1].tsType = PrimitiveTs(m.returnType.primitiveType, 0)

\* what the code does: the declaration of such a method is a class without
\* fields, holding the comment `Unknown return type`
C23_PrimitiveEmptyClass ==
  UnitGenerated =>
    \A i \in PrimitiveMethods :
      fileContent.classes[i] =
        <<ClassDecl(analysis.methods[i].responseClassName, <<>>, "Unknown return type")>>

ArrayMethods ==
  {i \in DOMAIN analysis.methods : analysis.methods[i].returnType.type = "array"}

\* the declarations of method i hold the class <Name>Item and the alias
\* <Name> = <Name>Item
HasItemAndAlias(i) ==
  LET rcn == analysis.methods[i].responseClassName
      decls == fileContent.classes[i]
  IN /\ \E j \in DOMAIN decls : decls[j].kind = "class" /\ decls[j].name = rcn \o str_Item
     /\ \E j \in DOMAIN decls : decls[j] = ConstDecl(rcn, rcn \o str_Item)

\* C24: for every method whose top-level shape is an array, whatever the
\* element shape, the module holds a declaration <Name>Item and the alias
\* <Name> = <Name>Item.
C24_ArrayItemAndAlias ==
  UnitGenerated => \A i \in ArrayMethods : HasItemAndAlias(i)

\* what the code does: item class and alias for an array of objects; for any
\* other element one class <Name> with the single field `value`, typed by the
\* element's primitive type (any when the element is no primitive)
C24_ObjectArraysOnly ==
  UnitGenerated =>
    \A i \in ArrayMethods :
      LET m == analysis.methods[i]
          e == m.returnType.elementType
      IN IF e.type = "object"
           THEN /\ HasItemAndAlias(i)
                /\ fileContent.classes[i][1].properties = generateProperties(e.properties)
           ELSE /\ Len(fileContent.classes[i]) = 1
                /\ fileContent.classes[i][1].kind = "class"
                /\ fileContent.classes[i][1].name = m.responseClassName
                /\ Len(fileContent.classes[i][1].properties) = 1
                /\ fileContent.classes[i][1].properties[1].name = str_value
                /\ fileContent.classes[i][1].properties[1].tsType =
                     PrimitiveTs(IF e.type = "primitive" THEN e.primitiveType ELSE "any", 0)

\* field n of the declaration named parent is written with type ts and array flag arr
FieldTyped(fc, parent, n, ts, arr) ==
  /\ DeclsNamed(fc, parent) # {}
  /\ TheDecl(fc, parent).kind = "class"
  /\ \E q \in DOMAIN TheDecl(fc, parent).properties :
       LET f == TheDecl(fc, parent).properties[q] IN
       f.name = n /\ f.tsType = ts /\ f.apiType = [ts EXCEPT !.dims = 0] /\ f.isArray = arr

\* every object-valued and array-of-objects-valued field below the declaration
\* named parent, at any depth, has its child declaration and is typed as it
RECURSIVE ChildrenDeclared(_, _, _)
ChildrenDeclared(fc, parent, props) ==
  \A k \in DOMAIN props :
    LET p == props[k] IN
    /\ IsObjectProp(p.type) =>
         LET child == parent \o capitalize(p.name) IN
         /\ DeclsNamed(fc, child) # {}
         /\ FieldTyped(fc, parent, p.name, ClassTs(child, 0), FALSE)
         /\ ChildrenDeclared(fc, child, p.type.properties)
    /\ IsObjectArrayProp(p.type) =>
         LET child == parent \o capitalize(p.name) \o str_Item IN
         /\ DeclsNamed(fc, child) # {}
         /\ FieldTyped(fc, parent, p.name, ClassTs(child, 1), TRUE)
         /\ ChildrenDeclared(fc, child, p.type.elementType.properties)

\* C25: every object-valued field at any nesting depth of a method's shape
\* has a child declaration {Parent}{Capitalize(field)} and is typed as it;
\* every array-of-objects field has a child {Parent}{Capitalize(field)}Item
\* and is typed as an array of it with the array flag set.
C25_ChildrenAtAnyDepth ==
  UnitGenerated =>
    \A i \in DOMAIN analysis.methods :
      LET m == analysis.methods[i] IN
      /\ m.returnType.type = "object" =>
           ChildrenDeclared(fileContent, m.responseClassName, m.returnType.properties)
      /\ (m.returnType.type = "array" /\ m.returnType.elementType.type = "object") =>
           ChildrenDeclared(fileContent, m.responseClassName \o str_Item,
                            m.returnType.elementType.properties)

\* what the code does: the fields of a top-level object have their child
\* declarations, and nothing below them has: the declarations of a method are
\* its own, the children of its first-level fields, and the item class of a
\* top-level array
C25_FirstLevelOnly ==
  UnitGenerated =>
    \A i \in DOMAIN analysis.methods :
      LET m == analysis.methods[i]
          rcn == m.responseClassName
          names == SeqRange(DeclNames(fileContent.classes[i]))
      IN IF m.returnType.type = "object"
           THEN LET props == m.returnType.properties IN
                /\ \A k \in DOMAIN props :
                     /\ IsObjectProp(props[k].type) =>
                          /\ rcn \o capitalize(props[k].name) \in names
                          /\ fileContent.classes[i][Len(fileContent.classes[i])]
                               .properties[k].tsType =
                                 ClassTs(rcn \o capitalize(props[k].name), 0)
                     /\ IsObjectArrayProp(props[k].type) =>
                          /\ rcn \o capitalize(props[k].name) \o str_Item \in names
                          /\ fileContent.classes[i][Len(fileContent.classes[i])]
                               .properties[k].tsType =
                                 ClassTs(rcn \o capitalize(props[k].name) \o str_Item, 1)
                          /\ fileContent.classes[i][Len(fileContent.classes[i])]
                               .properties[k].isArray
                /\ names \subseteq
                     {rcn}
                     \cup {rcn \o capitalize(props[k].name) :
                             k \in {k \in DOMAIN props : IsObjectProp(props[k].type)}}
                     \cup {rcn \o capitalize(props[k].name) \o str_Item :
                             k \in {k \in DOMAIN props : IsObjectArrayProp(props[k].type)}}
                /\ \A j \in 1..(Len(fileContent.classes[i]) - 1) :
                     \A q \in DOMAIN fileContent.classes[i][j].properties :
                       "class" \notin DOMAIN fileContent.classes[i][j].properties[q].tsType
           ELSE names \subseteq {rcn, rcn \o str_Item}

\* the positions of the classes of the file whose name ends in Service
ServiceClasses(file) ==
  {k \in DOMAIN file.statements :
     /\ file.statements[k].kind = "Class"
     /\ file.statements[k].name # <<>>
     /\ endsWith(file.statements[k].name, str_Service)}
FirstServiceClass(file) ==
  file.statements[CHOOSE k \in ServiceClasses(file) : \A j \in ServiceClasses(file) : k <= j]
LastServiceClass(file) ==
  file.statements[CHOOSE k \in ServiceClasses(file) : \A j \in ServiceClasses(file) : k >= j]

\* the methods analyzeServiceFile collects from the classes at positions >= k
RECURSIVE MethodsFrom(_, _)
MethodsFrom(file, k) ==
  IF k > Len(file.statements) THEN <<>>
  ELSE (IF k \in ServiceClasses(file)
          THEN SG_analyzeMembers(file.statements[k].members, file.statements[k].name, <<>>)
          ELSE <<>>) \o MethodsFrom(file, k + 1)

\* C26: of several classes named ...Service in one file only the first is
\* used: the methods collected, the unit name of the declaration names, the
\* name of the lookup object and of the output file all come from it.
C26_FirstServiceClassOnly ==
  (analysis # Pending /\ ServiceClasses(sourceFile) # {}) =>
    LET c == FirstServiceClass(sourceFile)
        ms == SG_analyzeMembers(c.members, c.name, <<>>)
    IN /\ IF ms = <<>> THEN analysis = Null
          ELSE /\ analysis # Null
               /\ analysis.serviceName = c.name
               /\ analysis.methods = ms
       /\ UnitGenerated =>
            fileContent.responseObject.name =
              replace(c.name, str_Service, <<>>) \o str_ServiceResponse

\* what the code does: every class named ...Service is visited, the methods
\* of all of them are collected in file order, each named after its own
\* class, and the unit name is the name of the last such class
C26_LastNameAllMethods ==
  (analysis # Pending /\ ServiceClasses(sourceFile) # {}) =>
    LET ms == MethodsFrom(sourceFile, 1)
    IN /\ IF ms = <<>> THEN analysis = Null
          ELSE /\ analysis # Null
               /\ analysis.serviceName = LastServiceClass(sourceFile).name
               /\ analysis.methods = ms
       /\ UnitGenerated =>
            fileContent.responseObject.name =
              replace(LastServiceClass(sourceFile).name, str_Service, <<>>)
                \o str_ServiceResponse

-----------------------------------------------------------------------------
(* The output directory and the generation pass of ServiceResponseGenerator *)

EmptyDir == [p \in {} |-> <<>>]

\* mutant: the module is appended to an existing file instead of replacing it
appendFileSync(dir, path, content) ==
  [p \in (DOMAIN dir) \cup {path} |->
     IF p = path THEN (IF path \in DOMAIN dir THEN dir[path] ELSE <<>>) \o <<content>>
                 ELSE dir[p]]

\* fs.writeFileSync(path, content): the file holds exactly `content` afterwards
writeFileSync(dir, path, content) ==
  [p \in (DOMAIN dir) \cup {path} |-> IF p = path THEN <<content>> ELSE dir[p]]

\* the base name of outputPath in generateResponseFile
outputPath(a) == toLowerCase(a.serviceName) \o str_dotResponseTs

Failure(phase, filePath) == [phase |-> phase, filePath |-> filePath]

\* if (options.clean && existsSync(outputDir)) rmSync(outputDir); mkdirSync
BeginGenerate ==
  /\ pc = "start"
  /\ responsesDir' = IF clean THEN EmptyDir ELSE responsesDir
  /\ pc' = "analyze"
  /\ idx' = 1
  /\ analyses' = <<>>
  /\ generatedCount' = 0
  /\ failed' = {}
  /\ UNCHANGED <<serviceFiles, clean, pass, firstPass, controllerFiles, indexFile,
                 anVars, scVars, unVars, rwVars, plVars, rtVars>>

\* one iteration of the analysis loop that returns
AnalyzeNext ==
  /\ pc = "analyze"
  /\ idx <= Len(serviceFiles)
  /\ LET a == analyzeServiceFile(serviceFiles[idx]) IN
       analyses' = IF a # Null /\ Len(a.methods) > 0 THEN Append(analyses, a) ELSE analyses
  /\ idx' = idx + 1
  /\ UNCHANGED <<serviceFiles, clean, responsesDir, pass, pc, generatedCount, failed,
                 firstPass, controllerFiles, indexFile, anVars, scVars, unVars, rwVars, plVars, rtVars>>

\* mutant: a unit that cannot be read or parsed ends the analysis loop
AnalyzeFails_break ==
  /\ pc = "analyze"
  /\ idx <= Len(serviceFiles)
  /\ failed' = failed \cup {Failure("analyze", serviceFiles[idx].fileName)}
  /\ idx' = Len(serviceFiles) + 1
  /\ UNCHANGED <<serviceFiles, clean, responsesDir, pass, pc, analyses, generatedCount,
                 firstPass, controllerFiles, indexFile, anVars, scVars, unVars, rwVars, plVars, rtVars>>

\* one iteration of the analysis loop in which readFileSync or the parser
\* throws: the catch logs a warning and the loop goes on
AnalyzeFails ==
  /\ pc = "analyze"
  /\ idx <= Len(serviceFiles)
  /\ failed' = failed \cup {Failure("analyze", serviceFiles[idx].fileName)}
  /\ idx' = idx + 1
  /\ UNCHANGED <<serviceFiles, clean, responsesDir, pass, pc, analyses, generatedCount,
                 firstPass, controllerFiles, indexFile, anVars, scVars, unVars, rwVars, plVars, rtVars>>

\* the analysis loop is over: let generatedCount = 0 and the write loop starts
BeginWriting ==
  /\ pc = "analyze"
  /\ idx > Len(serviceFiles)
  /\ pc' = "write"
  /\ idx' = 1
  /\ generatedCount' = 0
  /\ UNCHANGED <<serviceFiles, clean, responsesDir, pass, analyses, failed,
                 firstPass, controllerFiles, indexFile, anVars, scVars, unVars, rwVars, plVars, rtVars>>

\* one iteration of the write loop: generateResponseFile returns, generatedCount++
WriteNext ==
  /\ pc = "write"
  /\ idx <= Len(analyses)
  /\ responsesDir' = writeFileSync(responsesDir, outputPath(analyses[idx]),
                                   generateFileContent(analyses[idx]))
  /\ generatedCount' = generatedCount + 1
  /\ idx' = idx + 1
  /\ UNCHANGED <<serviceFiles, clean, pass, pc, analyses, failed,
                 firstPass, controllerFiles, indexFile, anVars, scVars, unVars, rwVars, plVars, rtVars>>

\* one iteration of the write loop in which writeFileSync throws: the catch
\* logs an error and the loop goes on
WriteFails ==
  /\ pc = "write"
  /\ idx <= Len(analyses)
  /\ failed' = failed \cup {Failure("write", analyses[idx].filePath)}
  /\ idx' = idx + 1
  /\ UNCHANGED <<serviceFiles, clean, responsesDir, pass, pc, analyses, generatedCount,
                 firstPass, controllerFiles, indexFile, anVars, scVars, unVars, rwVars, plVars, rtVars>>

\* the write loop is over: generate() logs generatedCount and returns
FinishGenerate ==
  /\ pc = "write"
  /\ idx > Len(analyses)
  /\ pc' = "done"
  /\ UNCHANGED <<serviceFiles, clean, responsesDir, pass, idx, analyses, generatedCount,
                 failed, firstPass, controllerFiles, indexFile, anVars, scVars, unVars, rwVars, plVars, rtVars>>

\* generate() is called again on the same source files
SecondPass ==
  /\ pc = "done"
  /\ pass = 1
  /\ firstPass' = [dir |-> responsesDir, failed |-> failed,
                   generatedCount |-> generatedCount]
  /\ pass' = 2
  /\ pc' = "start"
  /\ UNCHANGED <<serviceFiles, clean, responsesDir, idx, analyses, generatedCount,
                 failed, controllerFiles, indexFile, anVars, scVars, unVars, rwVars, plVars, rtVars>>

-----------------------------------------------------------------------------
(* DecoratorGenerator.generate: the index file *)

responseObjectNameOf(serviceName) ==
  replace(serviceName, str_Service, <<>>) \o str_ServiceResponse

generateImports(as) ==
  <<[name |-> <<>>, path |-> <<>>, text |-> "@nestjs/common"],
    [name |-> <<>>, path |-> <<>>, text |-> "@nestjs/swagger"]>>
  \o [i \in DOMAIN as |->
        [name |-> responseObjectNameOf(as[i].serviceName),
         path |-> str_responsesDirPrefix \o toLowerCase(as[i].serviceName) \o str_dotResponse,
         text |-> "response"]]

generateResponseMapping(as) ==
  [i \in DOMAIN as |->
     [controllerKey |-> replace(as[i].controllerName, str_Controller, <<>>),
      methods |-> [j \in DOMAIN as[i].methods |->
                     [name |-> as[i].methods[j].name,
                      type |-> [object |-> responseObjectNameOf(as[i].serviceName),
                                member |-> as[i].methods[j].name],
                      isArray |-> as[i].methods[j].isArray,
                      status |-> IF as[i].methods[j].httpMethod = "Post"
                                   THEN "created" ELSE "ok"]]]]

\* the analysis loop of DecoratorGenerator.generate; the files whose index is in
\* `failing` throw and are skipped by the catch
RECURSIVE DG_analyzeAll(_, _, _)
DG_analyzeAll(files, failing, k) ==
  IF k > Len(files) THEN <<>>
  ELSE LET a == IF k \in failing THEN Null ELSE analyzeControllerFile(files[k])
       IN (IF a # Null /\ Len(a.methods) > 0 THEN <<a>> ELSE <<>>)
            \o DG_analyzeAll(files, failing, k + 1)

generateIndexFile(as) ==
  [imports |-> generateImports(as), responseMapping |-> generateResponseMapping(as)]

C_users ==
  SourceFile(str_usersControllerTs,
    <<ClassDeclaration(str_UsersController, <<Decorator("Controller", <<>>)>>,
        <<OtherMember,
          MethodMember(str_findAll, <<Decorator("Get", <<>>)>>),
          MethodMember(str_create, <<Decorator("Post", <<>>)>>)>>)>>)
C_audit ==
  SourceFile(str_auditControllerTs,
    <<ClassDeclaration(str_AuditController, <<Decorator("Controller", <<>>)>>,
        <<MethodMember(str_list, <<Decorator("Get", <<>>)>>)>>)>>)
C_misc ==
  SourceFile(str_miscControllerTs,
    <<ClassDeclaration(str_MiscController, <<>>,
        <<MethodMember(str_health, <<Decorator("UseGuards", <<>>)>>)>>)>>)

DistinctFiles(fs) == \A i, j \in DOMAIN fs : i # j => fs[i].fileName # fs[j].fileName
ControllerFileSeqs ==
  {fs \in SeqsUpTo({C_users, C_audit, C_misc}, MaxUnits) : DistinctFiles(fs)}

\* DecoratorGenerator.generate after the service pass: index.ts is unlinked when
\* options.clean, the controllers are analysed and index.ts is written
GenerateDecorators ==
  /\ pc = "done"
  /\ indexFile = Pending
  /\ \E files \in ControllerFileSeqs :
       \E failing \in SUBSET (DOMAIN files) :
         /\ controllerFiles' = files
         /\ indexFile' = generateIndexFile(DG_analyzeAll(files, failing, 1))
  /\ pc' = "indexed"
  /\ UNCHANGED <<serviceFiles, clean, responsesDir, pass, idx, analyses, generatedCount,
                 failed, firstPass, anVars, scVars, unVars, rwVars, plVars, rtVars>>

-----------------------------------------------------------------------------
(* Specification of the generation passes *)

F_users ==
  SourceFile(str_usersServiceTs,
    <<ClassDeclaration(str_UsersService, <<>>, <<OtherMember, M_findAll, M_create>>)>>)
F_orders ==
  SourceFile(str_ordersServiceTs,
    <<ClassDeclaration(str_OrdersService, <<>>, <<M_remove, M_log>>)>>)
\* a service class without analyzable methods
F_audit ==
  SourceFile(str_auditServiceTs,
    <<ClassDeclaration(str_AuditService, <<>>, <<M_log, M_helper>>)>>)
\* a second file declaring a class called UsersService
F_adminUsers ==
  SourceFile(str_adminUsersServiceTs,
    <<ClassDeclaration(str_UsersService, <<>>, <<M_count>>)>>)

ServiceFileSeqs ==
  {fs \in SeqsUpTo({F_users, F_orders, F_audit, F_adminUsers}, MaxUnits) : DistinctFiles(fs)}

\* a module left in outputDir by an earlier version of the sources
LegacyModule ==
  [imports |-> <<>>, classes |-> <<>>,
   responseObject |-> [name |-> <<>>, mappings |-> <<>>]]
LegacyDir == writeFileSync(EmptyDir, str_legacyResponseTs, LegacyModule)

InitGenerate ==
  /\ serviceFiles \in ServiceFileSeqs
  /\ clean \in BOOLEAN
  /\ responsesDir \in {EmptyDir, LegacyDir}
  /\ pass = 1
  /\ pc = "start"
  /\ idx = 0
  /\ analyses = <<>>
  /\ generatedCount = 0
  /\ failed = {}
  /\ firstPass = Pending
  /\ controllerFiles = Pending
  /\ indexFile = Pending
  /\ IdleAn /\ IdleSc /\ IdleUn /\ IdleRw /\ IdlePl /\ IdleRt

NextGenerate ==
  \/ BeginGenerate \/ AnalyzeNext \/ AnalyzeFails \/ BeginWriting
  \/ WriteNext \/ WriteFails \/ FinishGenerate \/ SecondPass \/ GenerateDecorators

SpecGenerate == InitGenerate /\ [][NextGenerate]_vars

PassDone == pc = "done"

\* C1: when generate() has run twice on the same service files, and the same
\* units failed in both runs, the output directory holds after the second run
\* exactly the files, with exactly the contents, it held after the first run.
C1_Idempotent ==
  (PassDone /\ pass = 2 /\ failed = firstPass.failed)
    => /\ DOMAIN responsesDir = DOMAIN firstPass.dir
       /\ responsesDir = firstPass.dir
       /\ generatedCount = firstPass.generatedCount

\* the second run is over, it did not clean the directory, and it has
\* overwritten a module the first run had written
C1_Witness ==
  /\ PassDone /\ pass = 2 /\ failed = firstPass.failed
  /\ ~clean
  /\ generatedCount > 0
  /\ str_legacyResponseTs \in DOMAIN responsesDir

\* the units of the pass: index in serviceFiles -> analysis (or Null)
UnitAnalysis(i) == analyzeServiceFile(serviceFiles[i])
Analyzable(i) == UnitAnalysis(i) # Null /\ Len(UnitAnalysis(i).methods) > 0
UnitFailed(i) ==
  \/ Failure("analyze", serviceFiles[i].fileName) \in failed
  \/ Failure("write", serviceFiles[i].fileName) \in failed
Succeeded == {i \in DOMAIN serviceFiles : Analyzable(i) /\ ~UnitFailed(i)}

\* C10: at the end of a pass every analyzable unit that did not itself fail has
\* its module in the output directory (with its own content unless a later
\* successful unit writes the same path), whatever happened to the other
\* units, and generatedCount is the number of units written successfully.
C10_FailureIsolation ==
  PassDone =>
    /\ \A i \in Succeeded :
         /\ outputPath(UnitAnalysis(i)) \in DOMAIN responsesDir
         /\ (\A j \in Succeeded :
               j > i => outputPath(UnitAnalysis(j)) # outputPath(UnitAnalysis(i)))
              => responsesDir[outputPath(UnitAnalysis(i))]
                   = <<generateFileContent(UnitAnalysis(i))>>
    /\ generatedCount = Cardinality(Succeeded)

\* a pass in which the first unit failed and a later unit was written
C10_Witness ==
  /\ PassDone
  /\ Len(serviceFiles) > 1
  /\ UnitFailed(1)
  /\ \E i \in Succeeded : i > 1
  /\ generatedCount = 1

ServiceClassNames(file) ==
  {file.statements[k].name :
     k \in {k \in DOMAIN file.statements :
              /\ file.statements[k].kind = "Class"
              /\ file.statements[k].name # <<>>
              /\ endsWith(file.statements[k].name, str_Service)}}

\* the service names of the units that produce no module in any run: their
\* analysis is null or has no method, and no other unit declares the name
EmptyServices ==
  UNION {ServiceClassNames(serviceFiles[i]) :
           i \in {i \in DOMAIN serviceFiles :
                    /\ ~Analyzable(i)
                    /\ \A j \in DOMAIN serviceFiles :
                         j # i => ServiceClassNames(serviceFiles[j])
                                    \cap ServiceClassNames(serviceFiles[i]) = {}}}

IndexRefersTo(index, svc) ==
  \/ \E i \in DOMAIN index.imports :
       \/ index.imports[i].name = responseObjectNameOf(svc)
       \/ index.imports[i].path
            = str_responsesDirPrefix \o toLowerCase(svc) \o str_dotResponse
  \/ \E i \in DOMAIN index.responseMapping :
       \E j \in DOMAIN index.responseMapping[i].methods :
         index.responseMapping[i].methods[j].type.object = responseObjectNameOf(svc)

\* C6 (as claimed): once both generators have run, a service class without
\* analyzable methods has no <service>.response.ts in the output directory and
\* the index has no import and no RESPONSE_CONFIG entry that refers to it.
C6_EmptyServiceAbsent ==
  pc = "indexed" =>
    \A svc \in EmptyServices :
      /\ (toLowerCase(svc) \o str_dotResponseTs) \notin DOMAIN responsesDir
      /\ ~IndexRefersTo(indexFile, svc)

\* the part of C6 the code does satisfy: no module is written for the service
C6_NoFileForEmptyService ==
  pc = "indexed" =>
    \A svc \in EmptyServices :
      (toLowerCase(svc) \o str_dotResponseTs) \notin DOMAIN responsesDir

-----------------------------------------------------------------------------
(* response-transformer.ts: the Decorator Rewriter *)

\* a string literal with its text; an access `object.name`
StringLiteralOf(text) == [kind |-> "StringLiteral", text |-> text]
QualifiedAccess(object, n) == [kind |-> "PropertyAccess", expression |-> object, name |-> n]

\* values of the options object built from a marker's argument
Undefined == [kind |-> "undefined"]
StringValue(text) == [kind |-> "string", text |-> text]
BooleanValue(b) == [kind |-> "boolean", value |-> b]
OptionKeys == {"isArray", "status", "description"}
Options(isArray, status, description) ==
  [isArray |-> isArray, status |-> status, description |-> description]
\* JavaScript truthiness of an option value
Truthy(v) ==
  IF v.kind = "boolean" THEN v.value
  ELSE IF v.kind = "string" THEN v.text # <<>>
  ELSE FALSE

MarkerNames == {"InferAPIResponse", "InferAPIArrayResponse", "InferAPICreatedResponse"}
IsMarker(modifier) ==
  modifier.kind = "Decorator" /\ getDecoratorName(modifier) \in MarkerNames

hasInferDecoratorMethod(node) ==
  \E i \in DOMAIN node.modifiers : IsMarker(node.modifiers[i])

KeyOf(name) ==
  IF name = str_isArray THEN "isArray"
  ELSE IF name = str_status THEN "status"
  ELSE IF name = str_description THEN "description"
  ELSE ""

RECURSIVE extractObjectLiteralOptions(_, _)
extractObjectLiteralOptions(props, options) ==
  IF props = <<>> THEN options
  ELSE LET prop == Head(props) IN
       IF prop.kind = "PropertyAssignment" /\ KeyOf(prop.name) # ""
         THEN IF prop.initializer.kind = "StringLiteral"
                THEN extractObjectLiteralOptions(Tail(props),
                       [options EXCEPT ![KeyOf(prop.name)] = StringValue(prop.initializer.text)])
              ELSE IF prop.initializer.kind \in {"TrueKeyword", "FalseKeyword"}
                THEN extractObjectLiteralOptions(Tail(props),
                       [options EXCEPT ![KeyOf(prop.name)] =
                          BooleanValue(prop.initializer.kind = "TrueKeyword")])
              ELSE extractObjectLiteralOptions(Tail(props), options)
         ELSE extractObjectLiteralOptions(Tail(props), options)

NoOptions == Options(Undefined, Undefined, Undefined)

\* Null when the node carries no marker, else the options of its first marker
getInferResponseOptions(node) ==
  LET hits == {i \in DOMAIN node.modifiers : IsMarker(node.modifiers[i])} IN
  IF hits = {} THEN Null
  ELSE LET decorator == node.modifiers[CHOOSE i \in hits : \A j \in hits : i <= j]
           decoratorName == getDecoratorName(decorator)
           baseOptions ==
             IF decoratorName = "InferAPIArrayResponse"
               THEN Options(BooleanValue(TRUE), Undefined, Undefined)
             ELSE IF decoratorName = "InferAPICreatedResponse"
               THEN Options(Undefined, StringValue(str_created), Undefined)
             ELSE NoOptions
       IN IF decorator.isCall
            THEN IF Len(decorator.arguments) > 0
                      /\ decorator.arguments[1].kind = "ObjectLiteral"
                   THEN LET options == extractObjectLiteralOptions(
                                         decorator.arguments[1].properties, NoOptions)
                        IN [k \in OptionKeys |->
                              IF options[k] # Undefined THEN options[k] ELSE baseOptions[k]]
                   ELSE baseOptions
            ELSE NoOptions

T_detectHttpMethod(method) ==
  LET hits == {i \in DOMAIN method.modifiers :
                 /\ method.modifiers[i].kind = "Decorator"
                 /\ getDecoratorName(method.modifiers[i]) # ""
                 /\ InSeq(getDecoratorName(method.modifiers[i]),
                          <<"Get", "Post", "Put", "Patch", "Delete", "Options", "Head">>)}
  IN IF hits = {} THEN ""
     ELSE getDecoratorName(method.modifiers[CHOOSE i \in hits : \A j \in hits : i <= j])

T_isArrayMethod(methodName) ==
  \E pattern \in {str_findAll, str_getAll, str_listAll, str_search, str_filter, str_query} :
     includes(toLowerCase(methodName), toLowerCase(pattern))

IsInferAPIResponse(modifier) ==
  modifier.kind = "Decorator" /\ getDecoratorName(modifier) = "InferAPIResponse"

\* method.modifiers?.filter(...): every modifier but the InferAPIResponse decorators
filteredModifiers(modifiers) ==
  SelectSeq(modifiers, LAMBDA m : ~IsInferAPIResponse(m))

addInferredResponseDecorator(method, options, serviceName) ==
  LET methodName == method.name
      responseObjectName == replace(serviceName, str_Service, <<>>) \o str_ServiceResponse
      httpMethod == T_detectHttpMethod(method)
      isArrayResponse == Truthy(options.isArray) \/ T_isArrayMethod(methodName)
      decoratorName ==
        IF options.status = StringValue(str_created) \/ httpMethod = "Post"
          THEN "ApiCreatedResponse" ELSE "ApiOkResponse"
      decoratorOptions ==
        <<PropertyAssignment(str_type, QualifiedAccess(responseObjectName, methodName))>>
        \o (IF isArrayResponse THEN <<PropertyAssignment(str_isArray, TrueKeyword)>> ELSE <<>>)
        \o (IF Truthy(options.description)
              THEN <<PropertyAssignment(str_description,
                       IF options.description.kind = "string"
                         THEN StringLiteralOf(options.description.text) ELSE OtherExpr)>>
              ELSE <<>>)
      newDecorator == Decorator(decoratorName, <<ObjectLiteral(decoratorOptions)>>)
  IN [method EXCEPT !.modifiers = filteredModifiers(method.modifiers) \o <<newDecorator>>]

\* the transformer on a class declaration: the class-level branch maps the
\* members and returns; otherwise visitEachChild reaches the methods
transformClass(node, serviceName) ==
  LET classLevelOptions == getInferResponseOptions(node) IN
  IF classLevelOptions # Null
    THEN [node EXCEPT !.members =
            [i \in DOMAIN node.members |->
               IF node.members[i].kind = "Method" /\ ~hasInferDecoratorMethod(node.members[i])
                 THEN addInferredResponseDecorator(node.members[i], classLevelOptions,
                                                   serviceName)
                 ELSE node.members[i]]]
    ELSE [node EXCEPT !.members =
            [i \in DOMAIN node.members |->
               IF node.members[i].kind = "Method"
                    /\ getInferResponseOptions(node.members[i]) # Null
                 THEN addInferredResponseDecorator(node.members[i],
                        getInferResponseOptions(node.members[i]), serviceName)
                 ELSE node.members[i]]]

\* first pass (visitor): is there a marker decorator anywhere in the file
hasInferDecorator(file) ==
  \E k \in DOMAIN file.statements :
     /\ file.statements[k].kind = "Class"
     /\ \/ hasInferDecoratorMethod(file.statements[k])
        \/ \E i \in DOMAIN file.statements[k].members :
              /\ file.statements[k].members[i].kind = "Method"
              /\ hasInferDecoratorMethod(file.statements[k].members[i])

\* first pass (visitor): the service of the last class named ...Controller, '' if none
T_serviceName(file) ==
  LET hits == {k \in DOMAIN file.statements :
                 /\ file.statements[k].kind = "Class"
                 /\ file.statements[k].name # <<>>
                 /\ endsWith(file.statements[k].name, str_Controller)}
  IN IF hits = {} THEN <<>>
     ELSE replace(file.statements[CHOOSE k \in hits : \A j \in hits : j <= k].name,
                  str_Controller, <<>>) \o str_Service

hasResponseImport(file) ==
  \E k \in DOMAIN file.statements :
     /\ file.statements[k].kind = "Import"
     /\ includes(file.statements[k].moduleSpecifier, str_dotResponse)

\* path.relative(dirname(fileName), join(responsesDir, responseFileName)).replace('.ts', '')
\* for a source file at the project root
relativeResponsePath(serviceName) ==
  replace(str_responsesRel \o toLowerCase(serviceName) \o str_dotResponseTs, str_dotTs, <<>>)

\* the function createResponseTransformer returns, applied to a source file
createResponseTransformer(file) ==
  IF ~includes(file.fileName, str_dotControllerTs) THEN file
  ELSE IF ~hasInferDecorator(file) THEN file
  ELSE LET serviceName == T_serviceName(file)
           responseObjectName ==
             replace(serviceName, str_Service, <<>>) \o str_ServiceResponse
       IN IF ~hasResponseImport(file)
            THEN SourceFile(file.fileName,
                   <<ImportDeclaration(<<responseObjectName>>,
                                       relativeResponsePath(serviceName))>>
                   \o file.statements)
            ELSE SourceFile(file.fileName,
                   [k \in DOMAIN file.statements |->
                      IF file.statements[k].kind = "Class"
                        THEN transformClass(file.statements[k], serviceName)
                        ELSE file.statements[k]])

-----------------------------------------------------------------------------
(* Specification of the rewriter *)

Marker(n, props) == Decorator(n, <<ObjectLiteral(props)>>)

\* the decorator lists of a controller method: a verb alone, a verb with a
\* marker (with and without options, in either order), or a guard only
MethodModifiers ==
  {<<Decorator("Post", <<>>)>>,
   <<Decorator("Get", <<>>)>>,
   <<Decorator("UseGuards", <<>>)>>,
   <<Decorator("Post", <<>>), Decorator("InferAPIResponse", <<>>)>>,
   <<Decorator("InferAPIResponse", <<>>), Decorator("Post", <<>>)>>,
   <<Decorator("Get", <<>>), Decorator("InferAPIResponse", <<>>)>>,
   <<Decorator("Get", <<>>), BareDecorator("InferAPIResponse")>>,
   <<Decorator("Post", <<>>),
     Marker("InferAPIResponse", <<PropertyAssignment(str_isArray, TrueKeyword)>>)>>,
   <<Decorator("Get", <<>>),
     Marker("InferAPIResponse",
            <<PropertyAssignment(str_status, StringLiteralOf(str_created))>>)>>,
   <<Decorator("Post", <<>>),
     Marker("InferAPIResponse",
            <<PropertyAssignment(str_description, StringLiteralOf(str_NewUser))>>)>>,
   <<Decorator("Post", <<>>),
     Marker("InferAPIResponse",
            <<PropertyAssignment(str_status, StringLiteralOf(str_ok))>>)>>,
   <<Decorator("Get", <<>>),
     Marker("InferAPIResponse", <<PropertyAssignment(str_isArray, FalseKeyword)>>)>>,
   <<Decorator("Get", <<>>), Decorator("InferAPIArrayResponse", <<>>)>>,
   <<Decorator("Post", <<>>), Decorator("InferAPICreatedResponse", <<>>)>>}

RewriteMembers ==
  {ms \in SeqsUpTo({MethodMember(n, mods) :
                      n \in {str_create, str_findAll, str_remove},
                      mods \in MethodModifiers}, MaxMethods) :
     Len(ms) > 0 /\ \A i, j \in DOMAIN ms : i # j => ms[i].name # ms[j].name}

ClassModifiers ==
  {<<Decorator("Controller", <<>>)>>,
   <<Decorator("Controller", <<>>), Decorator("InferAPIResponse", <<>>)>>,
   <<Decorator("InferAPICreatedResponse", <<>>), Decorator("Controller", <<>>)>>}

ResponseImport ==
  ImportDeclaration(<<str_UsersServiceResponse>>, relativeResponsePath(str_UsersService))

SwaggerImport == ImportDeclaration(<<str_ApiTags>>, str_nestjsSwagger)
\* an import of something else from a module whose name contains '.response'
DtoImport == ImportDeclaration(<<str_CreateUserDto>>, str_dtoUserResponseDto)

\* controller files with and without the import of the lookup object, and one
\* file that carries a marker but is no controller file
RewriteInputs ==
  {SourceFile(str_usersControllerTs,
     imports \o <<ClassDeclaration(str_UsersController, cmods, <<OtherMember>> \o ms)>>) :
     imports \in {<<>>, <<SwaggerImport>>, <<SwaggerImport, ResponseImport>>,
                  <<SwaggerImport, DtoImport>>},
     cmods \in ClassModifiers,
     ms \in RewriteMembers}
  \cup
  {SourceFile(str_usersServiceTs,
     <<ClassDeclaration(str_UsersService, <<>>,
         <<MethodMember(str_create, <<Decorator("InferAPIResponse", <<>>)>>)>>)>>)}

InitRewrite ==
  /\ rwOriginal \in RewriteInputs
  /\ rwFile = rwOriginal
  /\ rwPrev = Pending
  /\ rwApplied = 0
  /\ IdleAn /\ IdleSc /\ IdleUn /\ IdleGen /\ IdlePl /\ IdleRt

\* the compiler applies the transformer to the source file
Transform ==
  /\ rwFile # Pending
  /\ rwApplied < MaxApply
  /\ rwFile' = createResponseTransformer(rwFile)
  /\ rwPrev' = rwFile
  /\ rwApplied' = rwApplied + 1
  /\ UNCHANGED <<rwOriginal, anVars, scVars, unVars, genVars, plVars, rtVars>>

SpecRewrite == InitRewrite /\ [][Transform]_vars

IsControllerFile(file) == includes(file.fileName, str_dotControllerTs)

\* the methods of the classes of a file, each with the name of its class
MethodsOf(file) ==
  {[class |-> file.statements[k].name, method |-> file.statements[k].members[i]] :
     <<k, i>> \in
       {<<k, i>> \in (DOMAIN file.statements) \X (1..(MaxMethods + 2)) :
          /\ file.statements[k].kind = "Class"
          /\ i \in DOMAIN file.statements[k].members
          /\ file.statements[k].members[i].kind = "Method"}}

HasDecorator(method, n) ==
  \E i \in DOMAIN method.modifiers :
     method.modifiers[i].kind = "Decorator" /\ getDecoratorName(method.modifiers[i]) = n

HasProperty(props, key) == \E i \in DOMAIN props : props[i].name = key

\* the method carries ApiCreatedResponse({ type: <X>ServiceResponse.<method> })
\* of the service paired with its class, without isArray for a non-array name
CreatedResponseOf(class, method) ==
  \E i \in DOMAIN method.modifiers :
     LET d == method.modifiers[i] IN
     /\ d.kind = "Decorator"
     /\ getDecoratorName(d) = "ApiCreatedResponse"
     /\ Len(d.arguments) = 1
     /\ d.arguments[1].kind = "ObjectLiteral"
     /\ \E j \in DOMAIN d.arguments[1].properties :
          d.arguments[1].properties[j]
            = PropertyAssignment(str_type,
                QualifiedAccess(replace(class, str_Controller, <<>>) \o str_ServiceResponse,
                                method.name))
     /\ (~T_isArrayMethod(method.name)
           => ~HasProperty(d.arguments[1].properties, str_isArray))

PostWithMarker(file) ==
  {m \in MethodsOf(file) :
     HasDecorator(m.method, "Post") /\ HasDecorator(m.method, "InferAPIResponse")}

\* C7 (as claimed): after the transformer has run on a controller file, with
\* or without an import of the lookup object, every method that carried @Post
\* and @InferAPIResponse carries ApiCreatedResponse with type
\* <X>ServiceResponse.<method>, without isArray for a non-array name, and no
\* longer carries the marker.
C7_PostMarkerRewritten ==
  (rwApplied = 1 /\ IsControllerFile(rwOriginal)) =>
    \A m \in PostWithMarker(rwOriginal) :
      \E out \in MethodsOf(rwFile) :
        /\ out.class = m.class
        /\ out.method.name = m.method.name
        /\ CreatedResponseOf(out.class, out.method)
        /\ ~HasDecorator(out.method, "InferAPIResponse")

ClassLevelMarker(file) ==
  \E k \in DOMAIN file.statements :
     file.statements[k].kind = "Class" /\ hasInferDecoratorMethod(file.statements[k])

\* the part of C7 the code does satisfy: the import of the lookup object is
\* already in the file, the class carries no marker, and the marker does not
\* set isArray
C7_WithImportMemberLevel ==
  (rwApplied = 1 /\ IsControllerFile(rwOriginal)
     /\ hasResponseImport(rwOriginal) /\ ~ClassLevelMarker(rwOriginal)) =>
    \A m \in PostWithMarker(rwOriginal) :
      ~Truthy(getInferResponseOptions(m.method).isArray) =>
        \E out \in MethodsOf(rwFile) :
          /\ out.class = m.class
          /\ out.method.name = m.method.name
          /\ CreatedResponseOf(out.class, out.method)
          /\ ~HasDecorator(out.method, "InferAPIResponse")

\* C8 (as claimed): after one application of the transformer to a controller
\* file no marker decorator (InferAPIResponse, InferAPIArrayResponse,
\* InferAPICreatedResponse; on a class or on a method) remains, and a further
\* application leaves the file as it is.
C8_MarkersGoneSecondNoOp ==
  IsControllerFile(rwOriginal) =>
    /\ rwApplied >= 1 => ~hasInferDecorator(rwFile)
    /\ rwApplied >= 2 => rwFile = rwPrev

OnlyMemberInferAPIResponse(file) ==
  /\ ~ClassLevelMarker(file)
  /\ \A m \in MethodsOf(file) :
       \A i \in DOMAIN m.method.modifiers :
         IsMarker(m.method.modifiers[i]) => IsInferAPIResponse(m.method.modifiers[i])

\* the part of C8 the code does satisfy: the import is already in the file and
\* the only markers are InferAPIResponse markers on methods
C8_InferAPIResponseOnly ==
  (IsControllerFile(rwOriginal) /\ hasResponseImport(rwOriginal)
     /\ OnlyMemberInferAPIResponse(rwOriginal)) =>
    /\ rwApplied >= 1 => ~hasInferDecorator(rwFile)
    /\ rwApplied >= 2 => rwFile = rwPrev

-----------------------------------------------------------------------------
(* plugin.js: the CLI plugin, its staleness check and its lock file *)

Procs == 1..MaxProcs

\* if (age > 30000): the age in ms beyond which a lock file is stale
StaleLockAge == 30000

\* the directories a plugin configuration can name as outputDir
DefaultOutputDir == "src/generated"
OutputRoots == {DefaultOutputDir, "out/generated"}

\* a file that may be absent, with its mtime
NoFile == [exists |-> FALSE, mtime |-> 0]
FileAt(t) == [exists |-> TRUE, mtime |-> t]

\* the lock file: its content is the pid of the writer
NoLock == [exists |-> FALSE, pid |-> 0, mtime |-> 0]
LockOf(p, t) == [exists |-> TRUE, pid |-> p, mtime |-> t]

\* the source files of the project the plugin is configured for
PluginServiceFiles == <<F_users>>
PluginControllerFiles == <<C_users>>
SourceNames ==
  SeqRange([i \in DOMAIN PluginServiceFiles |-> PluginServiceFiles[i].fileName])
    \cup SeqRange([i \in DOMAIN PluginControllerFiles |-> PluginControllerFiles[i].fileName])

\* const pluginOptions = { outputDir: 'src/generated', clean: false, ...options }
PluginOptions(outputDir, cleanOpt) == [outputDir |-> outputDir, clean |-> cleanOpt]

\* new ServiceResponseGenerator() and new DecoratorGenerator(): the options of
\* a generator constructed without arguments
ServiceGeneratorDefaults == [outputDir |-> DefaultOutputDir, clean |-> TRUE]
DecoratorGeneratorDefaults == [outputDir |-> DefaultOutputDir, clean |-> TRUE]

\* shouldRegenerate: what the check sees; `threw` is an exception of statSync
\* or glob.sync inside the try block
Staleness(threw) ==
  LET signatureFile == plFs[plOptions.outputDir].marker IN
  [missing |-> ~signatureFile.exists,
   newer |-> signatureFile.exists
               /\ \E f \in SourceNames : plSrcMtime[f] > signatureFile.mtime,
   threw |-> signatureFile.exists /\ threw]
\* mutant: the modification times of the source files are not looked at
shouldRegenerate_noMtime(seen) == seen.missing \/ seen.threw

shouldRegenerate(seen) == seen.missing \/ seen.newer \/ seen.threw

\* the two write loops of ServiceResponseGenerator.generate without failures
RECURSIVE writeResponseFiles(_, _, _)
writeResponseFiles(dir, files, k) ==
  IF k > Len(files) THEN dir
  ELSE LET a == analyzeServiceFile(files[k]) IN
       writeResponseFiles(
         IF a # Null /\ Len(a.methods) > 0
           THEN writeFileSync(dir, outputPath(a), generateFileContent(a)) ELSE dir,
         files, k + 1)

HoldsLock(p) == plPc[p] \in {"service", "decorator", "marker", "release"}

notPlVars == <<anVars, scVars, unVars, genVars, rwVars>>

NoCheck == [missing |-> FALSE, newer |-> FALSE, threw |-> FALSE, outcome |-> "none"]
Seen(seen, outcome) ==
  [missing |-> seen.missing, newer |-> seen.newer, threw |-> seen.threw,
   outcome |-> outcome]

\* runPlugin: a process calls generateAllResponses(pluginOptions); the
\* continuations of an earlier call have run by then
RunPlugin(p) ==
  /\ plPc[p] = "idle"
  /\ plPending[p] = {}
  /\ plRuns < MaxRuns
  /\ plRuns' = plRuns + 1
  /\ plPc' = [plPc EXCEPT ![p] = "check"]
  /\ plCheck' = [plCheck EXCEPT ![p] = NoCheck]
  /\ UNCHANGED <<plOptions, plFs, plLock, plClock, plSrcMtime, plPending, notPlVars, rtVars>>

\* if (!shouldRegenerate(options)) return;
CheckStaleness(p) ==
  /\ plPc[p] = "check"
  /\ \E threw \in BOOLEAN :
       LET seen == Staleness(threw) IN
       IF shouldRegenerate(seen)
         THEN /\ plPc' = [plPc EXCEPT ![p] = "lockExists"]
              /\ plCheck' = [plCheck EXCEPT ![p] = Seen(seen, "stale")]
         ELSE /\ plPc' = [plPc EXCEPT ![p] = "idle"]
              /\ plCheck' = [plCheck EXCEPT ![p] = Seen(seen, "fresh")]
  /\ UNCHANGED <<plOptions, plFs, plLock, plClock, plSrcMtime, plPending, plRuns,
                 notPlVars, rtVars>>

\* acquireLock: if (fs.existsSync(LOCK_FILE_PATH))
LockExists(p) ==
  /\ plPc[p] = "lockExists"
  /\ plPc' = [plPc EXCEPT ![p] = IF plLock.exists THEN "lockStat" ELSE "lockWrite"]
  /\ UNCHANGED <<plOptions, plFs, plLock, plClock, plSrcMtime, plPending, plCheck,
                 plRuns, notPlVars, rtVars>>

\* acquireLock: statSync and the age test; statSync throws when the file has
\* gone, a lock of at most 30 s is active: both return false
LockStat(p) ==
  /\ plPc[p] = "lockStat"
  /\ IF plLock.exists /\ plClock - plLock.mtime > StaleLockAge
       THEN /\ plPc' = [plPc EXCEPT ![p] = "lockUnlink"]
            /\ UNCHANGED plCheck
       ELSE /\ plPc' = [plPc EXCEPT ![p] = "idle"]
            /\ plCheck' = [plCheck EXCEPT ![p].outcome = "busy"]
  /\ UNCHANGED <<plOptions, plFs, plLock, plClock, plSrcMtime, plPending, plRuns,
                 notPlVars, rtVars>>

\* acquireLock: fs.unlinkSync of the stale lock; it throws when the file has gone
LockUnlink(p) ==
  /\ plPc[p] = "lockUnlink"
  /\ IF plLock.exists
       THEN /\ plLock' = NoLock
            /\ plPc' = [plPc EXCEPT ![p] = "lockWrite"]
            /\ UNCHANGED plCheck
       ELSE /\ plPc' = [plPc EXCEPT ![p] = "idle"]
            /\ plCheck' = [plCheck EXCEPT ![p].outcome = "busy"]
            /\ UNCHANGED plLock
  /\ UNCHANGED <<plOptions, plFs, plClock, plSrcMtime, plPending, plRuns, notPlVars, rtVars>>

\* acquireLock: fs.writeFileSync(LOCK_FILE_PATH, pid); return true
LockWrite(p) ==
  /\ plPc[p] = "lockWrite"
  /\ plLock' = LockOf(p, plClock)
  /\ plPc' = [plPc EXCEPT ![p] = "service"]
  /\ plCheck' = [plCheck EXCEPT ![p].outcome = "running"]
  /\ UNCHANGED <<plOptions, plFs, plClock, plSrcMtime, plPending, plRuns, notPlVars, rtVars>>

\* mkdir of outputDir/responses, new ServiceResponseGenerator(), and
\* serviceGenerator.generate() up to its first await: the generator removes
\* and recreates its own output directory when its clean option is set
ServiceGenerateSync(p) ==
  /\ plPc[p] = "service"
  /\ LET g == ServiceGeneratorDefaults IN
       plFs' = IF g.clean
                 THEN [plFs EXCEPT ![g.outputDir].responses = EmptyDir,
                                   ![g.outputDir].marker = NoFile]
                 ELSE plFs
  /\ plPending' = [plPending EXCEPT ![p] = @ \cup {"responses"}]
  /\ plPc' = [plPc EXCEPT ![p] = "decorator"]
  /\ UNCHANGED <<plOptions, plLock, plClock, plSrcMtime, plCheck, plRuns, notPlVars, rtVars>>

\* new DecoratorGenerator() and decoratorGenerator.generate() up to its first
\* await: index.ts is unlinked when the generator's clean option is set
DecoratorGenerateSync(p) ==
  /\ plPc[p] = "decorator"
  /\ LET g == DecoratorGeneratorDefaults IN
       plFs' = IF g.clean THEN [plFs EXCEPT ![g.outputDir].index = Pending] ELSE plFs
  /\ plPending' = [plPending EXCEPT ![p] = @ \cup {"index"}]
  /\ plPc' = [plPc EXCEPT ![p] = "marker"]
  /\ UNCHANGED <<plOptions, plLock, plClock, plSrcMtime, plCheck, plRuns, notPlVars, rtVars>>

\* fs.writeFileSync(generationMarkerPath, Date.now().toString())
WriteMarker(p) ==
  /\ plPc[p] = "marker"
  /\ plFs' = [plFs EXCEPT ![plOptions.outputDir].marker = FileAt(plClock)]
  /\ plPc' = [plPc EXCEPT ![p] = "release"]
  /\ UNCHANGED <<plOptions, plLock, plClock, plSrcMtime, plPending, plCheck, plRuns,
                 notPlVars, rtVars>>

\* finally { releaseLock() }: the lock file is unlinked if it exists
ReleaseLock(p) ==
  /\ plPc[p] = "release"
  /\ plLock' = NoLock
  /\ plPc' = [plPc EXCEPT ![p] = "idle"]
  /\ plCheck' = [plCheck EXCEPT ![p].outcome = "ran"]
  /\ UNCHANGED <<plOptions, plFs, plClock, plSrcMtime, plPending, plRuns, notPlVars, rtVars>>

\* the rest of ServiceResponseGenerator.generate, after `await glob`: it runs
\* once the synchronous generateAllResponses has returned
ServiceGenerateAsync(p) ==
  /\ plPc[p] = "idle"
  /\ "responses" \in plPending[p]
  /\ LET g == ServiceGeneratorDefaults IN
       plFs' = [plFs EXCEPT ![g.outputDir].responses =
                  writeResponseFiles(@, PluginServiceFiles, 1)]
  /\ plPending' = [plPending EXCEPT ![p] = @ \ {"responses"}]
  /\ UNCHANGED <<plOptions, plLock, plClock, plSrcMtime, plPc, plCheck, plRuns,
                 notPlVars, rtVars>>

\* the rest of DecoratorGenerator.generate, after `await glob`
DecoratorGenerateAsync(p) ==
  /\ plPc[p] = "idle"
  /\ "index" \in plPending[p]
  /\ LET g == DecoratorGeneratorDefaults IN
       plFs' = [plFs EXCEPT ![g.outputDir].index =
                  generateIndexFile(DG_analyzeAll(PluginControllerFiles, {}, 1))]
  /\ plPending' = [plPending EXCEPT ![p] = @ \ {"index"}]
  /\ UNCHANGED <<plOptions, plLock, plClock, plSrcMtime, plPc, plCheck, plRuns,
                 notPlVars, rtVars>>

\* time passes
Tick ==
  /\ plClock < MaxTicks * (StaleLockAge + 1)
  /\ plClock' = plClock + (StaleLockAge + 1)
  /\ UNCHANGED <<plOptions, plFs, plLock, plSrcMtime, plPc, plPending, plCheck, plRuns,
                 notPlVars, rtVars>>

\* the developer saves a source file
TouchSource(f) ==
  /\ plSrcMtime[f] < plClock
  /\ plSrcMtime' = [plSrcMtime EXCEPT ![f] = plClock]
  /\ UNCHANGED <<plOptions, plFs, plLock, plClock, plPc, plPending, plCheck, plRuns,
                 notPlVars, rtVars>>

InitPlugin ==
  /\ plOptions \in {PluginOptions(d, FALSE) : d \in OutputRoots}
  /\ plFs = [r \in OutputRoots |->
               [responses |-> LegacyDir, index |-> Pending, marker |-> NoFile]]
  /\ plLock = NoLock
  /\ plClock = 0
  /\ plSrcMtime = [f \in SourceNames |-> 0]
  /\ plPc = [p \in Procs |-> "idle"]
  /\ plPending = [p \in Procs |-> {}]
  /\ plCheck = [p \in Procs |-> NoCheck]
  /\ plRuns = 0
  /\ IdleAn /\ IdleSc /\ IdleUn /\ IdleGen /\ IdleRw /\ IdleRt

NextPlugin ==
  \/ \E p \in Procs :
       \/ RunPlugin(p) \/ CheckStaleness(p)
       \/ LockExists(p) \/ LockStat(p) \/ LockUnlink(p) \/ LockWrite(p)
       \/ ServiceGenerateSync(p) \/ DecoratorGenerateSync(p)
       \/ WriteMarker(p) \/ ReleaseLock(p)
       \/ ServiceGenerateAsync(p) \/ DecoratorGenerateAsync(p)
  \/ Tick
  \/ \E f \in SourceNames : TouchSource(f)

SpecPlugin == InitPlugin /\ [][NextPlugin]_vars

\* C11 (as claimed): with clean: false in the plugin options, the files that
\* were in the configured output directory before the pass are still there,
\* and the generators touch no directory but the configured outputDir.
C11_CleanFalseAndOutputDir ==
  plOptions.clean = FALSE =>
    /\ str_legacyResponseTs \in DOMAIN plFs[plOptions.outputDir].responses
    /\ \A r \in OutputRoots \ {plOptions.outputDir} :
         plFs[r].responses = LegacyDir /\ plFs[r].index = Pending

\* C18 (as claimed): no two processes are at the same time between a
\* successful acquireLock and their own releaseLock.
C18_MutualExclusion ==
  \A p, q \in Procs : p # q => ~(HoldsLock(p) /\ HoldsLock(q))

\* C19 (as claimed): while a file write of a pass is pending, the process has
\* neither written the .signature marker of that pass nor released the lock.
C19_WritesBeforeMarkerAndRelease ==
  \A p \in Procs :
    plPending[p] # {} => plPc[p] \in {"decorator", "marker"}

Decided(p) == plCheck[p].outcome \in {"fresh", "busy", "running", "ran"}
SawStale(p) == plCheck[p].missing \/ plCheck[p].newer \/ plCheck[p].threw

\* C20 (as claimed): a call of generateAllResponses runs a generation pass
\* exactly when the marker is missing, a source file is newer than the marker,
\* or the timestamp check threw.
C20_RunsExactlyWhenStale ==
  \A p \in Procs :
    Decided(p) => (plCheck[p].outcome \in {"running", "ran"} <=> SawStale(p))

\* C20 (amended): a call returns at once, without touching the lock or any
\* file, exactly when the marker exists, no source file is newer and the check
\* did not throw; a call that runs a pass, or that gives up because another
\* process holds the lock, saw a missing marker, a newer source or an exception.
C20_SkipsExactlyWhenFresh ==
  \A p \in Procs :
    /\ Decided(p) => (plCheck[p].outcome = "fresh" <=> ~SawStale(p))
    /\ plPc[p] \in {"lockExists", "lockStat", "lockUnlink", "lockWrite"} => SawStale(p)
    /\ HoldsLock(p) => SawStale(p)

\* a pass has completed and a further call with no newer source has returned
\* without generating
C20_Witness ==
  \E p \in Procs :
    /\ plCheck[p].outcome = "fresh"
    /\ plPc[p] = "idle"
    /\ plRuns >= 2
    /\ plFs[plOptions.outputDir].marker.exists
    /\ plLock = NoLock

-----------------------------------------------------------------------------
(* The generated runtime decorator InferredAPIResponse (generateDecorator) *)

\* a key that is no own property of an options object
Absent == [kind |-> "absent"]
\* a function inherited from Object.prototype
InheritedFunction == [kind |-> "function"]
\* the property names every object literal inherits from Object.prototype
ObjectPrototypeKeys == {str_constructor, str_toString, str_valueOf, str_hasOwnProperty}

\* an own property of an object literal, with its value
Own(v) == [kind |-> "own", value |-> v]

\* obj[key] on an object literal given by its keys and values in source order:
\* the last own property of that name, else the inherited one, else undefined
PropertyOf(keys, values, key) ==
  LET hits == {i \in DOMAIN keys : keys[i] = key} IN
  IF hits # {} THEN Own(values[CHOOSE i \in hits : \A j \in hits : j <= i])
  ELSE IF key \in ObjectPrototypeKeys THEN InheritedFunction
  ELSE Undefined

\* a ?? b
Nullish(v) == v = Absent \/ v = Undefined
Coalesce(a, b) == IF Nullish(a) THEN b ELSE a
\* { ...base, ...options }: the own properties of options replace those of base
Spread(base, options) ==
  [k \in DOMAIN base |-> IF options[k] # Absent THEN options[k] ELSE base[k]]

\* the fields of a RESPONSE_CONFIG entry as JavaScript values
EntryField(methodConfig, k) ==
  IF methodConfig.kind # "own" THEN Undefined
  ELSE IF k = "isArray" THEN BooleanValue(methodConfig.value.isArray)
  ELSE IF k = "status"
    THEN StringValue(IF methodConfig.value.status = "created" THEN str_created ELSE str_ok)
  ELSE methodConfig.value.type

NotApplied == [warned |-> TRUE, decoratorName |-> "", decoratorOptions |-> Pending,
               descriptor |-> "original"]

\* mutant: the status of the entry wins over the caller's
InferredAPIResponse_entryStatus(config, className, propertyKey, options) ==
  LET controllerName == replace(className, str_Controller, <<>>)
      controllerConfig ==
        PropertyOf([i \in DOMAIN config |-> config[i].controllerKey],
                   [i \in DOMAIN config |-> config[i].methods], controllerName)
  IN IF controllerConfig.kind = "undefined" THEN NotApplied
     ELSE LET methodConfig ==
                IF controllerConfig.kind # "own" THEN Undefined
                ELSE PropertyOf([i \in DOMAIN controllerConfig.value |->
                                   controllerConfig.value[i].name],
                                controllerConfig.value, propertyKey)
          IN IF methodConfig.kind = "undefined" THEN NotApplied
             ELSE [warned |-> FALSE,
                   decoratorName |->
                     IF EntryField(methodConfig, "status") = StringValue(str_created)
                       THEN "ApiCreatedResponse" ELSE "ApiOkResponse",
                   decoratorOptions |->
                     [type |-> EntryField(methodConfig, "type"),
                      isArray |-> Coalesce(options.isArray, EntryField(methodConfig, "isArray")),
                      status |-> EntryField(methodConfig, "status"),
                      description |-> options.description],
                   descriptor |-> "decorated"]

\* InferredAPIResponse(options)(target, propertyKey, descriptor), where
\* className is target.constructor.name
InferredAPIResponse(config, className, propertyKey, options) ==
  LET controllerName == replace(className, str_Controller, <<>>)
      methodName == propertyKey
      controllerConfig ==
        PropertyOf([i \in DOMAIN config |-> config[i].controllerKey],
                   [i \in DOMAIN config |-> config[i].methods], controllerName)
  IN IF controllerConfig.kind = "undefined" THEN NotApplied
     ELSE LET methodConfig ==
                IF controllerConfig.kind # "own" THEN Undefined
                ELSE PropertyOf([i \in DOMAIN controllerConfig.value |->
                                   controllerConfig.value[i].name],
                                controllerConfig.value, methodName)
          IN IF methodConfig.kind = "undefined" THEN NotApplied
             ELSE LET finalConfig ==
                        Spread([type |-> EntryField(methodConfig, "type"),
                                isArray |-> Coalesce(options.isArray,
                                                     EntryField(methodConfig, "isArray")),
                                status |-> Coalesce(options.status,
                                                    EntryField(methodConfig, "status")),
                                description |->
                                  IF Truthy(options.description) THEN options.description
                                  ELSE StringValue(str_SuccessResponse)],
                               [type |-> Absent, isArray |-> options.isArray,
                                status |-> options.status,
                                description |-> options.description])
                      spreadOptions ==
                        Spread([type |-> finalConfig.type,
                                description |-> finalConfig.description,
                                isArray |-> Absent, status |-> Absent],
                               [type |-> Absent, description |-> options.description,
                                isArray |-> options.isArray, status |-> options.status])
                      decoratorOptions ==
                        IF Truthy(finalConfig.isArray)
                          THEN [spreadOptions EXCEPT !.isArray = BooleanValue(TRUE)]
                          ELSE spreadOptions
                  IN [warned |-> FALSE,
                      decoratorName |->
                        IF finalConfig.status = StringValue(str_created)
                          THEN "ApiCreatedResponse" ELSE "ApiOkResponse",
                      decoratorOptions |-> decoratorOptions,
                      descriptor |-> "decorated"]

\* the options object InferredAPIResponse receives: the caller's options, with
\* status fixed by the convenience decorators
EffectiveOptions(call) ==
  IF call.via = "InferredOkResponse"
    THEN [call.options EXCEPT !.status = StringValue(str_ok)]
  ELSE IF call.via = "InferredCreatedResponse"
    THEN [call.options EXCEPT !.status = StringValue(str_created)]
  ELSE call.options

RuntimeConfigs ==
  {generateResponseMapping(DG_analyzeAll(files, {}, 1)) : files \in ControllerFileSeqs}

RuntimeCalls ==
  [via : {"InferredAPIResponse", "InferredOkResponse", "InferredCreatedResponse"},
   className : {str_UsersController, str_AuditController, str_MiscController},
   propertyKey : {str_findAll, str_create, str_list, str_toString},
   options : [isArray : {Absent, Undefined, BooleanValue(TRUE), BooleanValue(FALSE)},
              status : {Absent, Undefined, StringValue(str_ok), StringValue(str_created)},
              description : {Absent, StringValue(str_NewUser)}]]

InitRuntime ==
  /\ rtConfig \in RuntimeConfigs
  /\ rtCall \in RuntimeCalls
  /\ rtResult = Pending
  /\ IdleAn /\ IdleSc /\ IdleUn /\ IdleGen /\ IdleRw /\ IdlePl

\* the class is loaded and the decorator is applied to the method
ApplyDecorator ==
  /\ rtResult = Pending
  /\ rtCall # Pending
  /\ rtResult' = InferredAPIResponse(rtConfig, rtCall.className, rtCall.propertyKey,
                                     EffectiveOptions(rtCall))
  /\ UNCHANGED <<rtConfig, rtCall, anVars, scVars, unVars, genVars, rwVars, plVars>>

SpecRuntime == InitRuntime /\ [][ApplyDecorator]_vars

Applied == rtCall # Pending /\ rtResult # Pending

\* the entry of RESPONSE_CONFIG for the decorated method, if there is one
EntryIndexes ==
  {<<i, j>> \in (DOMAIN rtConfig) \X (1..(MaxMethods + 2)) :
     /\ rtConfig[i].controllerKey = replace(rtCall.className, str_Controller, <<>>)
     /\ j \in DOMAIN rtConfig[i].methods
     /\ rtConfig[i].methods[j].name = rtCall.propertyKey}
HasEntry == EntryIndexes # {}
TheEntry ==
  LET ij == CHOOSE ij \in EntryIndexes : TRUE IN rtConfig[ij[1]].methods[ij[2]]

\* C12 (as claimed): applied to a method without an entry in RESPONSE_CONFIG the
\* decorator warns, applies no documentation decorator and returns the
\* original descriptor.
C12_NoEntryIsNoOp ==
  (Applied /\ ~HasEntry) => rtResult = NotApplied

\* the part of C12 the code does satisfy: names that Object.prototype does not define
C12_NoEntryOrdinaryName ==
  (Applied /\ ~HasEntry
     /\ rtCall.propertyKey \notin ObjectPrototypeKeys
     /\ replace(rtCall.className, str_Controller, <<>>) \notin ObjectPrototypeKeys)
    => rtResult = NotApplied

\* the value used for an option: the caller's when the options object has the
\* key, else the entry's
Used(k) ==
  IF EffectiveOptions(rtCall)[k] # Absent THEN EffectiveOptions(rtCall)[k]
  ELSE EntryField(Own(TheEntry), k)

-----------------------------------------------------------------------------
(* Further properties of the rewriter *)

\* the documentation decorators of a method
DocDecorators(method) ==
  {method.modifiers[i] :
     i \in {i \in DOMAIN method.modifiers :
              /\ method.modifiers[i].kind = "Decorator"
              /\ getDecoratorName(method.modifiers[i]) \in {"ApiOkResponse", "ApiCreatedResponse"}}}

EmitsIsArray(d) ==
  \E j \in DOMAIN d.arguments[1].properties :
     d.arguments[1].properties[j] = PropertyAssignment(str_isArray, TrueKeyword)

\* the method of the rewritten file that corresponds to m
Rewritten(m) ==
  CHOOSE out \in MethodsOf(rwFile) :
    out.class = m.class /\ out.method.name = m.method.name

\* the files on which the transformer rewrites methods by their own markers
MemberLevelRewrite ==
  /\ rwApplied = 1
  /\ IsControllerFile(rwOriginal)
  /\ hasResponseImport(rwOriginal)
  /\ ~ClassLevelMarker(rwOriginal)

\* the options written in the marker of a method (NoOptions if it has none)
WrittenOptions(method) ==
  LET hits == {i \in DOMAIN method.modifiers : IsMarker(method.modifiers[i])}
      d == method.modifiers[CHOOSE i \in hits : \A j \in hits : i <= j]
  IN IF d.isCall /\ Len(d.arguments) > 0 /\ d.arguments[1].kind = "ObjectLiteral"
       THEN extractObjectLiteralOptions(d.arguments[1].properties, NoOptions)
       ELSE NoOptions

Marked(file) == {m \in MethodsOf(file) : hasInferDecoratorMethod(m.method)}

\* C14 (as claimed): explicit marker options win over inference: status 'ok'
\* on a @Post method gives the ok decorator, status 'created' on a non-Post
\* method gives the created decorator, and isArray: false on a method with an
\* array name gives a decorator without isArray: true.
C14_ExplicitOptionsWin ==
  MemberLevelRewrite =>
    \A m \in Marked(rwOriginal) :
      LET o == WrittenOptions(m.method)
          docs == DocDecorators(Rewritten(m).method)
      IN /\ docs # {}
         /\ (o.status = StringValue(str_ok) /\ HasDecorator(m.method, "Post"))
              => \A d \in docs : getDecoratorName(d) = "ApiOkResponse"
         /\ (o.status = StringValue(str_created) /\ ~HasDecorator(m.method, "Post"))
              => \A d \in docs : getDecoratorName(d) = "ApiCreatedResponse"
         /\ (o.isArray = BooleanValue(FALSE) /\ T_isArrayMethod(m.method.name))
              => \A d \in docs : ~EmitsIsArray(d)

\* the part of C14 the code does satisfy: options that ask for more than the
\* inference does (status 'created', isArray: true)
C14_CreatedAndArrayOptions ==
  MemberLevelRewrite =>
    \A m \in Marked(rwOriginal) :
      LET o == WrittenOptions(m.method)
          docs == DocDecorators(Rewritten(m).method)
      IN /\ docs # {}
         /\ o.status = StringValue(str_created)
              => \A d \in docs : getDecoratorName(d) = "ApiCreatedResponse"
         /\ o.isArray = BooleanValue(TRUE) => \A d \in docs : EmitsIsArray(d)

\* apply-transformations.ts: isArrayMethod
A_isArrayMethod(methodName) ==
  \E pattern \in {str_findAll, str_getAll, str_listAll, str_search, str_filter, str_query} :
     includes(toLowerCase(methodName), toLowerCase(pattern))

\* C15 (as claimed): for the name of every scanned endpoint method, the two
\* isArrayMethod functions of the rewriter give what the Endpoint Scanner gives.
C15_SameArrayness ==
  (Scanned /\ controllerAnalysis # Null) =>
    \A i \in DOMAIN controllerAnalysis.methods :
      LET m == controllerAnalysis.methods[i] IN
      /\ T_isArrayMethod(m.name) = m.isArray
      /\ A_isArrayMethod(m.name) = m.isArray

\* the part of C15 the code does satisfy: the two functions of the rewriter agree
C15_RewritersAgree ==
  (Scanned /\ controllerAnalysis # Null) =>
    \A i \in DOMAIN controllerAnalysis.methods :
      T_isArrayMethod(controllerAnalysis.methods[i].name)
        = A_isArrayMethod(controllerAnalysis.methods[i].name)

\* the method has a documentation decorator that reflects the options
Documented(method, options) ==
  \E d \in DocDecorators(method) :
     /\ options.status = StringValue(str_created)
          => getDecoratorName(d) = "ApiCreatedResponse"
     /\ Truthy(options.isArray) => EmitsIsArray(d)
     /\ Truthy(options.description) =>
          \E j \in DOMAIN d.arguments[1].properties :
             d.arguments[1].properties[j]
               = PropertyAssignment(str_description,
                                    StringLiteralOf(options.description.text))

ClassOptions(file, class) ==
  LET k == CHOOSE k \in DOMAIN file.statements :
             file.statements[k].kind = "Class" /\ file.statements[k].name = class
  IN getInferResponseOptions(file.statements[k])

ClassLevelRewrite ==
  /\ rwApplied = 1
  /\ IsControllerFile(rwOriginal)
  /\ hasResponseImport(rwOriginal)
  /\ ClassLevelMarker(rwOriginal)

\* C16 (as claimed): in a class that carries the marker, a method without its
\* own marker gets a documentation decorator built from the class-level
\* options, and a method with its own marker gets one built from its own.
C16_ClassDefaultsMemberOverrides ==
  ClassLevelRewrite =>
    \A m \in MethodsOf(rwOriginal) :
      IF hasInferDecoratorMethod(m.method)
        THEN Documented(Rewritten(m).method, getInferResponseOptions(m.method))
        ELSE Documented(Rewritten(m).method, ClassOptions(rwOriginal, m.class))

\* the part of C16 the code does satisfy: the methods without their own marker
C16_ClassDefaults ==
  ClassLevelRewrite =>
    \A m \in MethodsOf(rwOriginal) :
      ~hasInferDecoratorMethod(m.method)
        => Documented(Rewritten(m).method, ClassOptions(rwOriginal, m.class))

\* the positions of the imports of the lookup object in a file
LookupImports(file, responseObjectName) ==
  {k \in DOMAIN file.statements :
     /\ file.statements[k].kind = "Import"
     /\ InSeq(responseObjectName, file.statements[k].names)}
SwaggerImports(file) ==
  {k \in DOMAIN file.statements :
     /\ file.statements[k].kind = "Import"
     /\ file.statements[k].moduleSpecifier = str_nestjsSwagger}

\* C17 (as claimed): after the rewriter has processed a controller file that
\* contains the marker, the file has exactly one import of the lookup object
\* of the paired service; an absent one is inserted right after the last
\* import from @nestjs/swagger, a present one is left alone.
C17_ExactlyOneImport ==
  (rwApplied = 1 /\ IsControllerFile(rwOriginal) /\ hasInferDecorator(rwOriginal)) =>
    LET name == responseObjectNameOf(T_serviceName(rwOriginal)) IN
    /\ Cardinality(LookupImports(rwFile, name)) = 1
    /\ IF LookupImports(rwOriginal, name) = {}
         THEN SwaggerImports(rwOriginal) # {} =>
                LET last == CHOOSE k \in SwaggerImports(rwOriginal) :
                              \A j \in SwaggerImports(rwOriginal) : j <= k
                IN LookupImports(rwFile, name) = {last + 1}
         ELSE Len(rwFile.statements) = Len(rwOriginal.statements)

\* the part of C17 the code does satisfy: the file never has two imports of
\* the lookup object, and a file that has one gets no other
C17_AtMostOneImport ==
  (rwApplied >= 1 /\ IsControllerFile(rwOriginal) /\ hasInferDecorator(rwOriginal)) =>
    LET name == responseObjectNameOf(T_serviceName(rwOriginal)) IN
    /\ Cardinality(LookupImports(rwFile, name)) <= 1
    /\ LookupImports(rwOriginal, name) # {}
         => Len(rwFile.statements) = Len(rwOriginal.statements)

-----------------------------------------------------------------------------
(* Further properties of the endpoint scanner: the lookup table *)

\* RESPONSE_CONFIG as generate() writes it for the scanned file: the analysis
\* is pushed when it is not null, and the table is built from the analyses
LookupTable ==
  IF controllerAnalysis = Null THEN <<>>
  ELSE generateResponseMapping(<<controllerAnalysis>>)

\* the entries of the table, whatever their controller key
TableEntries ==
  {LookupTable[a].methods[j] :
     <<a, j>> \in {<<a, j>> \in (DOMAIN LookupTable) \X (1..(MaxMethods + 1)) :
                     j \in DOMAIN LookupTable[a].methods}}

\* the named methods of the controller classes of the scanned file
ControllerMethods ==
  {controllerFile.statements[k].members[i] :
     <<k, i>> \in {<<k, i>> \in (DOMAIN controllerFile.statements) \X (1..(MaxMethods + 1)) :
                     /\ controllerFile.statements[k].kind = "Class"
                     /\ endsWith(controllerFile.statements[k].name, str_Controller)
                     /\ i \in DOMAIN controllerFile.statements[k].members
                     /\ controllerFile.statements[k].members[i].kind = "Method"
                     /\ controllerFile.statements[k].members[i].name # <<>>}}

Verbs == {"Get", "Post", "Put", "Patch", "Delete", "Options", "Head"}
VerbPositions(m) ==
  {i \in DOMAIN m.modifiers :
     m.modifiers[i].kind = "Decorator" /\ m.modifiers[i].name \in Verbs}
IsPrivate(m) == \E i \in DOMAIN m.modifiers : m.modifiers[i].kind = "PrivateKeyword"
FirstVerb(m) ==
  m.modifiers[CHOOSE i \in VerbPositions(m) : \A j \in VerbPositions(m) : i <= j].name

-----------------------------------------------------------------------------
(* apply-transformations.ts: the text-based rewriter of controller files *)

\* The source text is kept as the syntax tree it parses to. Its decorators and
\* method names, in the order of the text, stand for the places the regular
\* expressions of transformControllerFile can match.

A_extractServiceName(file) ==
  LET hits == {k \in DOMAIN file.statements :
                 /\ file.statements[k].kind = "Class"
                 /\ file.statements[k].name # <<>>
                 /\ endsWith(file.statements[k].name, str_Controller)}
  IN IF hits = {} THEN <<>>
     ELSE replace(file.statements[CHOOSE k \in hits : \A j \in hits : j <= k].name,
                  str_Controller, <<>>) \o str_Service

A_getHttpMethod(method) ==
  LET hits == {i \in DOMAIN method.modifiers :
                 /\ method.modifiers[i].kind = "Decorator"
                 /\ getDecoratorName(method.modifiers[i]) # ""
                 /\ InSeq(getDecoratorName(method.modifiers[i]),
                          <<"Get", "Post", "Put", "Patch", "Delete">>)}
  IN IF hits = {} THEN ""
     ELSE getDecoratorName(method.modifiers[CHOOSE i \in hits : \A j \in hits : i <= j])

\* a place where /@InferAPIResponse\([^)]*\)/ matches: the marker written as a call
IsCallMarker(item) ==
  item.kind = "Decorator" /\ item.name = "InferAPIResponse" /\ item.isCall

\* the text `name(` of a method declaration
NameItem(n) == [kind |-> "Name", name |-> n]

RECURSIVE A_memberItems(_)
A_memberItems(members) ==
  IF members = <<>> THEN <<>>
  ELSE (IF Head(members).kind = "Method"
          THEN Head(members).modifiers \o <<NameItem(Head(members).name)>>
          ELSE <<>>) \o A_memberItems(Tail(members))

\* the decorators and method names of the file in the order of its text
RECURSIVE A_textItems(_)
A_textItems(statements) ==
  IF statements = <<>> THEN <<>>
  ELSE (IF Head(statements).kind = "Class"
          THEN Head(statements).modifiers \o A_memberItems(Head(statements).members)
          ELSE <<>>) \o A_textItems(Tail(statements))

\* sourceText.match(/@InferAPIResponse\([^)]*\)[\s\S]*?<methodName>\s*\(/): the
\* leftmost match starts at the first call marker that has `<methodName>(`
\* somewhere after it and ends at the first such place; <<>> for no match
getDecoratorText(items, methodName) ==
  LET ends(p) == {q \in DOMAIN items :
                    /\ q > p /\ items[q].kind = "Name"
                    /\ items[q].name # <<>> /\ endsWith(items[q].name, methodName)}
      starts == {p \in DOMAIN items : IsCallMarker(items[p]) /\ ends(p) # {}}
  IN IF starts = {} THEN <<>>
     ELSE LET p == CHOOSE p \in starts : \A r \in starts : p <= r
              q == CHOOSE q \in ends(p) : \A r \in ends(p) : q <= r
          IN SubSeq(items, p, q)

\* the text of the `description: '...'` properties a decorator is written with
DescriptionsOf(item) ==
  IF item.kind = "Decorator" /\ Len(item.arguments) > 0
       /\ item.arguments[1].kind = "ObjectLiteral"
    THEN LET ps == item.arguments[1].properties
         IN [k \in 1..Len(SelectSeq(ps, LAMBDA pr :
                     /\ pr.kind = "PropertyAssignment" /\ pr.name = str_description
                     /\ pr.initializer.kind = "StringLiteral")) |->
               SelectSeq(ps, LAMBDA pr :
                     /\ pr.kind = "PropertyAssignment" /\ pr.name = str_description
                     /\ pr.initializer.kind = "StringLiteral")[k].initializer.text]
    ELSE <<>>

\* decoratorText.match(/description:\s*['"]([^'"]*)['"]/): the first description
\* written anywhere in the matched text; <<>> for null
RECURSIVE extractDescription(_)
extractDescription(decoratorText) ==
  IF decoratorText = <<>> THEN <<>>
  ELSE IF DescriptionsOf(Head(decoratorText)) # <<>>
    THEN DescriptionsOf(Head(decoratorText))[1]
  ELSE extractDescription(Tail(decoratorText))

\* transformed.replace(/@InferAPIResponse\([^)]*\)/g, newDecorator)
A_replaceMarkers(file, newDecorator) ==
  LET R(mods) == [j \in DOMAIN mods |->
                    IF IsCallMarker(mods[j]) THEN newDecorator ELSE mods[j]]
  IN SourceFile(file.fileName,
       [k \in DOMAIN file.statements |->
          IF file.statements[k].kind = "Class"
            THEN [file.statements[k] EXCEPT
                    !.modifiers = R(@),
                    !.members = [i \in DOMAIN @ |->
                                   IF @[i].kind = "Method"
                                     THEN [@[i] EXCEPT !.modifiers = R(@)]
                                     ELSE @[i]]]
            ELSE file.statements[k]])

\* the decorator text built for one marked method (lines 107-135)
A_newDecorator(member, transformed, responseObjectName) ==
  LET methodName == member.name
      httpMethod == A_getHttpMethod(member)
      isArrayResponse == A_isArrayMethod(methodName)
      decoratorName == IF httpMethod = "Post" THEN "ApiCreatedResponse" ELSE "ApiOkResponse"
      description ==
        extractDescription(getDecoratorText(A_textItems(transformed.statements), methodName))
  IN Decorator(decoratorName,
       <<ObjectLiteral(
           <<PropertyAssignment(str_type, QualifiedAccess(responseObjectName, methodName))>>
           \o (IF isArrayResponse THEN <<PropertyAssignment(str_isArray, TrueKeyword)>>
                                  ELSE <<>>)
           \o (IF description # <<>>
                 THEN <<PropertyAssignment(str_description, StringLiteralOf(description))>>
                 ELSE <<>>))>>)

\* the methods of the parsed file that carry @InferAPIResponse, in document order
RECURSIVE A_markedMembers(_)
A_markedMembers(members) ==
  IF members = <<>> THEN <<>>
  ELSE (IF /\ Head(members).kind = "Method" /\ Head(members).name # <<>>
           /\ \E i \in DOMAIN Head(members).modifiers :
                IsInferAPIResponse(Head(members).modifiers[i])
          THEN <<Head(members)>> ELSE <<>>) \o A_markedMembers(Tail(members))
RECURSIVE A_markedMethods(_)
A_markedMethods(statements) ==
  IF statements = <<>> THEN <<>>
  ELSE (IF Head(statements).kind = "Class"
          THEN A_markedMembers(Head(statements).members) ELSE <<>>)
       \o A_markedMethods(Tail(statements))

\* the loop over the marked methods: each one replaces every marker that is
\* still in the text by its own decorator
RECURSIVE A_processMethods(_, _, _)
A_processMethods(methods, transformed, responseObjectName) ==
  IF methods = <<>> THEN transformed
  ELSE A_processMethods(Tail(methods),
         A_replaceMarkers(transformed,
           A_newDecorator(Head(methods), transformed, responseObjectName)),
         responseObjectName)

\* mutant: each marked method replaces the markers of its own declaration only
RECURSIVE A_processMethods_own(_, _, _)
A_processMethods_own(methods, transformed, responseObjectName) ==
  IF methods = <<>> THEN transformed
  ELSE A_processMethods_own(Tail(methods),
         SourceFile(transformed.fileName,
           [k \in DOMAIN transformed.statements |->
              IF transformed.statements[k].kind = "Class"
                THEN [transformed.statements[k] EXCEPT
                        !.members = [i \in DOMAIN @ |->
                           IF @[i].kind = "Method" /\ @[i].name = Head(methods).name
                             THEN [@[i] EXCEPT !.modifiers = [j \in DOMAIN @ |->
                                     IF IsCallMarker(@[j])
                                       THEN A_newDecorator(Head(methods), transformed,
                                                           responseObjectName)
                                       ELSE @[j]]]
                             ELSE @[i]]]
                ELSE transformed.statements[k]]),
         responseObjectName)

\* sourceText.includes('@InferAPIResponse')
A_hasMarkerText(file) ==
  \E q \in DOMAIN A_textItems(file.statements) :
     LET item == A_textItems(file.statements)[q] IN
     item.kind = "Decorator" /\ item.name = "InferAPIResponse"

\* transformed.includes(responseObjectName): in an import or in a decorator
A_mentions(file, responseObjectName) ==
  \/ \E k \in DOMAIN file.statements :
        /\ file.statements[k].kind = "Import"
        /\ InSeq(responseObjectName, file.statements[k].names)
  \/ \E q \in DOMAIN A_textItems(file.statements) :
        LET item == A_textItems(file.statements)[q] IN
        /\ item.kind = "Decorator" /\ Len(item.arguments) > 0
        /\ item.arguments[1].kind = "ObjectLiteral"
        /\ \E j \in DOMAIN item.arguments[1].properties :
             LET pr == item.arguments[1].properties[j] IN
             /\ pr.kind = "PropertyAssignment"
             /\ pr.initializer.kind = "PropertyAccess"
             /\ "expression" \in DOMAIN pr.initializer
             /\ pr.initializer.expression = responseObjectName

\* transformed.replace(/(import.*from '@nestjs\/swagger';)/, `$1\n${importStatement}`):
\* the import goes after the first import from '@nestjs/swagger', nowhere without one
A_addImport(file, importDecl) ==
  LET hits == {k \in DOMAIN file.statements :
                 /\ file.statements[k].kind = "Import"
                 /\ file.statements[k].moduleSpecifier = str_nestjsSwagger}
  IN IF hits = {} THEN file
     ELSE LET k == CHOOSE k \in hits : \A j \in hits : k <= j
          IN SourceFile(file.fileName,
               SubSeq(file.statements, 1, k) \o <<importDecl>>
                 \o SubSeq(file.statements, k + 1, Len(file.statements)))

\* the text written back to the file (the file as it was when nothing is written)
transformControllerFile(file) ==
  IF ~A_hasMarkerText(file) THEN file
  ELSE LET serviceName == A_extractServiceName(file) IN
       IF serviceName = <<>> THEN file
       ELSE LET responseObjectName ==
                  replace(serviceName, str_Service, <<>>) \o str_ServiceResponse
                withImport ==
                  IF ~A_mentions(file, responseObjectName)
                    THEN A_addImport(file,
                           ImportDeclaration(<<responseObjectName>>,
                                             relativeResponsePath(serviceName)))
                    ELSE file
            IN A_processMethods(A_markedMethods(file.statements), withImport,
                                responseObjectName)

-----------------------------------------------------------------------------
(* Specification of applyTransformations on one file *)

InitApply ==
  /\ rwOriginal \in RewriteInputs
  /\ rwFile = rwOriginal
  /\ rwPrev = Pending
  /\ rwApplied = 0
  /\ IdleAn /\ IdleSc /\ IdleUn /\ IdleGen /\ IdlePl /\ IdleRt

\* applyTransformations: the files glob finds under **/*.controller.ts are
\* transformed; any other file is not touched
ApplyTransformations ==
  /\ rwFile # Pending
  /\ rwApplied < MaxApply
  /\ rwFile' = IF endsWith(rwFile.fileName, str_dotControllerTs)
                 THEN transformControllerFile(rwFile) ELSE rwFile
  /\ rwPrev' = rwFile
  /\ rwApplied' = rwApplied + 1
  /\ UNCHANGED <<rwOriginal, anVars, scVars, unVars, genVars, plVars, rtVars>>

SpecApply == InitApply /\ [][ApplyTransformations]_vars

\* the methods of the file as written that carry the marker as a call
CallMarked(file) ==
  {m \in MethodsOf(file) :
     m.method.name # <<>> /\ \E i \in DOMAIN m.method.modifiers :
                                IsCallMarker(m.method.modifiers[i])}

\* the description written in the first call marker of the method; <<>> for none
OwnDescription(method) ==
  LET hits == {i \in DOMAIN method.modifiers : IsCallMarker(method.modifiers[i])}
      ds == DescriptionsOf(method.modifiers[CHOOSE i \in hits : \A j \in hits : i <= j])
  IN IF ds = <<>> THEN <<>> ELSE ds[1]

\* the decorator the claim gives the marker of method m of a UsersController
DecoratorFor(m) ==
  Decorator(IF HasDecorator(m.method, "Post") THEN "ApiCreatedResponse" ELSE "ApiOkResponse",
    <<ObjectLiteral(
        <<PropertyAssignment(str_type,
            QualifiedAccess(replace(m.class, str_Controller, <<>>) \o str_ServiceResponse,
                            m.method.name))>>
        \o (IF A_isArrayMethod(m.method.name)
              THEN <<PropertyAssignment(str_isArray, TrueKeyword)>> ELSE <<>>)
        \o (IF OwnDescription(m.method) # <<>>
              THEN <<PropertyAssignment(str_description,
                                        StringLiteralOf(OwnDescription(m.method)))>>
              ELSE <<>>))>>)

\* in the file after the run, method m has DecoratorFor(m) at the places of its
\* call markers and has kept every other modifier
MarkerReplacedByOwn(m) ==
  LET out == Rewritten(m).method IN
  /\ Len(out.modifiers) = Len(m.method.modifiers)
  /\ \A i \in DOMAIN m.method.modifiers :
       out.modifiers[i] = IF IsCallMarker(m.method.modifiers[i])
                            THEN DecoratorFor(m) ELSE m.method.modifiers[i]

Applied1 == rwApplied = 1 /\ IsControllerFile(rwOriginal)

\* C28: in a controller file with any number of marked methods each marker
\* is replaced by the decorator of the method it is attached to: type
\* <X>ServiceResponse.<method>, ApiCreatedResponse exactly for @Post, isArray:
\* true exactly for an array name, and the description of its own marker.
C28_EachMarkerItsOwnMethod ==
  Applied1 => \A m \in CallMarked(rwOriginal) : MarkerReplacedByOwn(m)

\* what the code does: every marker of the file is replaced by the decorator
\* built for the first marked method of the file, so the claim holds for the
\* files with one marked method
C28_SingleMarkedMethod ==
  (Applied1 /\ Len(A_markedMethods(rwOriginal.statements)) = 1) =>
    \A m \in CallMarked(rwOriginal) : MarkerReplacedByOwn(m)

-----------------------------------------------------------------------------
(* Further properties of the response transformer: the place of the decorator *)

\* the position of the marker of a marked method (the first one, whose options
\* the transformer reads)
MarkerPosition(method) ==
  CHOOSE i \in DOMAIN method.modifiers :
    /\ IsMarker(method.modifiers[i])
    /\ \A j \in DOMAIN method.modifiers : IsMarker(method.modifiers[j]) => i <= j

IsDocDecorator(modifier) ==
  modifier.kind = "Decorator"
    /\ getDecoratorName(modifier) \in {"ApiOkResponse", "ApiCreatedResponse"}

\* C29: when a marked method is rewritten, every decorator other than the
\* marker is kept unchanged and in its order, and the documentation decorator
\* stands at the position the marker had.
C29_DecoratorInPlaceOfMarker ==
  MemberLevelRewrite =>
    \A m \in Marked(rwOriginal) :
      LET old == m.method.modifiers
          new == Rewritten(m).method.modifiers
          p == MarkerPosition(m.method)
      IN /\ Len(new) = Len(old)
         /\ IsDocDecorator(new[p])
         /\ \A i \in DOMAIN old : i # p => new[i] = old[i]

\* what the code does: the modifiers other than @InferAPIResponse are kept
\* unchanged and in their order, and the documentation decorator is added
\* after the last of them
C29_OthersKeptDecoratorLast ==
  MemberLevelRewrite =>
    \A m \in Marked(rwOriginal) :
      LET old == m.method.modifiers
          new == Rewritten(m).method.modifiers
      IN /\ Len(new) > 0
         /\ IsDocDecorator(new[Len(new)])
         /\ SubSeq(new, 1, Len(new) - 1) =
              SelectSeq(old, LAMBDA d : ~(d.kind = "Decorator" /\ d.name = "InferAPIResponse"))

-----------------------------------------------------------------------------
(* Further properties of the declaration emitter: the names of a module *)

\* C30: in a generated module each exported name is declared exactly once:
\* methods with different names have different declaration names, no child
\* declaration has the name of another declaration, and every value of the
\* lookup object is a name declared in the module.
C30_NamesDeclaredOnce ==
  UnitGenerated =>
    /\ \A i, j \in DOMAIN analysis.methods :
         analysis.methods[i].name # analysis.methods[j].name =>
           analysis.methods[i].responseClassName # analysis.methods[j].responseClassName
    /\ \A n \in AllDeclNames(fileContent) : Cardinality(DeclsNamed(fileContent, n)) = 1
    /\ \A k \in DOMAIN fileContent.responseObject.mappings :
         fileContent.responseObject.mappings[k].value \in AllDeclNames(fileContent)

\* what the code guarantees: every value of the lookup object is declared in
\* the module, and the declaration name of a method depends on its class and
\* its capitalized name only
C30_LookupValuesDeclared ==
  UnitGenerated =>
    /\ \A k \in DOMAIN fileContent.responseObject.mappings :
         fileContent.responseObject.mappings[k].value \in AllDeclNames(fileContent)
    /\ \A i, j \in DOMAIN analysis.methods :
         (analysis.methods[i].responseClassName = analysis.methods[j].responseClassName
            /\ analysis.methods[i].name # analysis.methods[j].name)
           => capitalize(analysis.methods[i].name) = capitalize(analysis.methods[j].name)

=============================================================================
